---- MODULE Spec2Model ----
(***************************************************************************)
(* Realtime synchronisation layer of the space-grid-game frontend:         *)
(*   - buildStateSnapshotKey, the snapshot fingerprint (App.tsx)           *)
(*   - the long-poll API calls (healthApi.ts, gamesApi.ts, authApi.ts)     *)
(*   - PhoenixGameSocket, the push-channel client (net/ws.ts)              *)
(*   - GameBoardPage, the game subscription (App.tsx)                      *)
(*   - HealthStatus, the health subscription (HealthStatus.tsx)            *)
(*   - the realtime status bus (realtimeBus.ts)                            *)
(*                                                                         *)
(* The units share no state with each other, so a behaviour exercises one  *)
(* of them, named by the variable unit.                                    *)
(*                                                                         *)
(* A nullable value is a sequence of length at most one: None is null or   *)
(* undefined, Some(x) is the value x.                                      *)
(*                                                                         *)
(* An event handler, the render it schedules and the effects that render   *)
(* re-runs are one step: React flushes them before the next event is       *)
(* handled, so the refs that mirror state hold the rendered state.         *)
(***************************************************************************)
EXTENDS Integers, Sequences, FiniteSets, TLC

None == <<>>
Some(x) == <<x>>
IsSome(o) == o # <<>>
Val(o) == o[1]

(***************************************************************************)
(* Bounds of the model.                                                    *)
(***************************************************************************)
\* number of game ids a page can watch
MaxGameId == 2
\* number of server-side versions of one game
MaxVersion == 2
\* cap on the push client's ref counter for user-initiated pushes
MaxRef == 3
\* number of route changes of a mounted page
MaxSwitches == 1

\* number of calls of publishRealtimeStatus in a behaviour of the bus
MaxPubs == 2
\* number of sockets one push client creates
MaxSockets == 2

GameIds == 1..MaxGameId
\* the listeners given to subscribeRealtimeStatus
Listeners == {"l1", "l2"}
Versions == 1..MaxVersion

(***************************************************************************)
(* Strings                                                                 *)
(***************************************************************************)
RECURSIVE JoinStr(_, _)
\* Array.prototype.join
JoinStr(seq, sep) ==
  IF seq = <<>> THEN ""
  ELSE IF Len(seq) = 1 THEN seq[1]
  ELSE seq[1] \o sep \o JoinStr(Tail(seq), sep)

\* `${x ?? 'n'}` of a nullable number
NumOrN(o) == IF IsSome(o) THEN ToString(Val(o)) ELSE "n"

\* String.prototype.trim on the strings the model uses
TrimStr(s) ==
  CASE s = " " -> ""
    [] s = " c1 " -> "c1"
    [] OTHER -> s

(***************************************************************************)
(* Snapshot fingerprint                                                    *)
(***************************************************************************)
PlayerKey(p) ==
  ToString(p.userId) \o ":" \o p.status \o ":" \o NumOrN(p.positionX) \o ":"
    \o NumOrN(p.positionY) \o ":" \o ToString(p.capturedCellsCount) \o ":"
    \o ToString(p.gameScore)

PlayersKey(players) == JoinStr([i \in 1..Len(players) |-> PlayerKey(players[i])], "|")

RowKey(row) == JoinStr([i \in 1..Len(row) |-> ToString(row[i])], ",")

CellsKey(state) ==
  IF IsSome(state) THEN JoinStr([i \in 1..Len(Val(state).cells) |-> RowKey(Val(state).cells[i])], ";") ELSE "no-state"

buildStateSnapshotKey(game, state, players) ==
  JoinStr(<< ToString(game.id), game.updatedAt, game.playState,
             ToString(game.turnNumber), NumOrN(game.currentTurnUserId),
             ToString(game.pointsAtStake),
             IF IsSome(state) THEN ToString(Val(state).turnNumber) ELSE "n",
             IF IsSome(state) THEN Val(state).playState ELSE "n",
             IF IsSome(state) THEN NumOrN(Val(state).currentTurnUserId) ELSE "n",
             CellsKey(state),
             PlayersKey(players) >>, "~")

KeyOf(snap) == buildStateSnapshotKey(snap.game, snap.state, snap.players)

(***************************************************************************)
(* Server data.  ServerSnapshot(g, v) is version v of game g as the API    *)
(* parsers (parseGame, parseGameState, parsePlayers) return it.            *)
(***************************************************************************)
ServerGame(g, v) ==
  [ id |-> g, updatedAt |-> "t" \o ToString(v), playState |-> "active",
    turnNumber |-> v, currentTurnUserId |-> Some(1 + (v % 2)),
    pointsAtStake |-> 10, status |-> "open", winnerUserId |-> None ]

ServerState(g, v) ==
  Some([ width |-> 2, height |-> 1, cells |-> << << v % 2, 0 >> >>,
         currentTurnUserId |-> Some(1 + (v % 2)), turnNumber |-> v,
         playState |-> "active" ])

ServerPlayers(g, v) ==
  << [ userId |-> 1, email |-> "a@x", status |-> "active",
       positionX |-> Some(v % 2), positionY |-> Some(0),
       capturedCellsCount |-> v, gameScore |-> v ],
     [ userId |-> 2, email |-> "b@x", status |-> "active",
       positionX |-> Some(1), positionY |-> Some(0),
       capturedCellsCount |-> 0, gameScore |-> 0 ] >>

ServerSnapshot(g, v) ==
  [ game |-> ServerGame(g, v), state |-> ServerState(g, v),
    players |-> ServerPlayers(g, v) ]

(***************************************************************************)
(* Long-poll meta fields.  A raw JSON value is [t |-> "absent"],           *)
(* [t |-> "str", s |-> ...], [t |-> "bool", b |-> ...] or [t |-> "num"].   *)
(***************************************************************************)
Absent == [t |-> "absent"]
Str(s) == [t |-> "str", s |-> s]
Bool(b) == [t |-> "bool", b |-> b]
Num == [t |-> "num"]

CursorStrings == {"c1", "c2"}
RawCursors == {Absent, Num, Str(""), Str(" "), Str(" c1 ")} \cup {Str(c) : c \in CursorStrings}
RawTimeouts == {Absent, Bool(TRUE), Bool(FALSE), Str("true")}
\* the cursors a caller can hold
Cursors == {None, Some(" c1 ")} \cup {Some(c) : c \in CursorStrings}

\* typeof data.cursor === 'string' && data.cursor.trim() !== '' ? data.cursor : null
ParseCursor(raw) ==
  IF raw.t = "str" /\ TrimStr(raw.s) # "" THEN Some(raw.s) ELSE None

\* a plausible bug: no response counts as timed out, so its body is applied
ParseTimedOutNever(raw) == FALSE

\* data.timeout === true
ParseTimedOut(raw) == raw.t = "bool" /\ raw.b = TRUE

\* a plausible bug: a timed-out response keeps no cursor of its own
parseLongPollMetaDropOnTimeout(data) ==
  [ cursor |-> IF ParseTimedOut(data.timeout) THEN None ELSE ParseCursor(data.cursor),
    timedOut |-> ParseTimedOut(data.timeout) ]

parseLongPollMeta(data) ==
  [ cursor |-> ParseCursor(data.cursor), timedOut |-> ParseTimedOut(data.timeout) ]

\* a plausible bug: the loop takes the cursor of the cycle even when it has none
CoalesceDropsOld(a, b) == a

\* a plausible bug: the loop keeps the cursor it had
CoalesceKeepsOld(a, b) == b

\* cycle.cursor ?? gameStateCursorRef.current
Coalesce(a, b) == IF IsSome(a) THEN a ELSE b

(***************************************************************************)
(* State                                                                   *)
(***************************************************************************)
VARIABLES
  unit,                 \* the unit this behaviour exercises
  \* --- GameBoardPage: React state
  mounted,              \* the page is mounted for an authenticated user
  gameId,               \* numericId of the route
  details,              \* None or Some([game, state, players])
  live,                 \* liveGame, gameState, livePlayers: None or Some([game, state, players])
  loading, loadingState,
  error, moveError, moveBusy,
  wsConnected, wsTransportState,
  \* --- GameBoardPage: refs
  lastSnapshotKey,      \* lastSnapshotKeyRef.current
  gameStateCursor,      \* gameStateCursorRef.current
  client,               \* wsClientRef.current: None or Some([sock, ref, joinRef])
  \* --- GameBoardPage: the live effects' pending awaits
  detailsPc,            \* "none" | "inflight"
  tokenPc,              \* "none" | "inflight"
  pollPc,               \* "none" | "inflight" | "sleeping"
  pollSince,            \* the cursor the in-flight long-poll request carries
  firstResponsePending,
  movePc,               \* None, or Some(g): `await moveGame(g, ...)` of handleMove is pending
  \* --- pending awaits and sockets of effects already cleaned up
  stale,
  \* --- realtimeBus
  bus,                  \* window.__spaceGridRealtimeStatus
  switches,             \* route changes so far
  \* --- HealthStatus: the closure of its effect, and its React state
  isActive, transportMode, recoveryRetryMs,
  healthCursor,         \* `cursor` of the effect's closure
  viewState,            \* None ({phase: 'loading'}) or Some([result, transportMode, note])
  healthPc,             \* the await runLoop is at: "none" | "long-poll" | "down-sleep" |
                        \* "probe" | "snapshot" | "fallback-sleep" | "done"
  healthSince,          \* the cursor the in-flight health long poll carries
  \* --- a call of a long-poll API function, and what it settled with
  apiIn,                \* None or Some([fn, sinceCursor, outcome])
  apiOut,               \* None or Some([thrown, cursor, timedOut])
  \* --- two snapshots, and their fingerprints
  keyIn,                \* None or Some(<< a, b >>)
  keyOut,               \* None or Some(<< key of a, key of b >>)
  \* --- realtimeBus: the handlers on window, and a record of the calls
  published,            \* the payloads publishRealtimeStatus was called with
  listeners,            \* of each listener: "new", "on" (subscribed) or "off"
  heard,                \* of each listener: the payloads it was called with
  \* --- one PhoenixGameSocket and the sockets it created
  phx,                  \* the fields of the instance: [ws, ref, joinRef]
  sockets,              \* of each WebSocket it created: [st, canErr, join]
  reported,             \* the status onStatusChange was last called with
  \* --- what the last step did
  last

pageVars == << mounted, gameId, details, live, loading, loadingState, error,
               moveError, moveBusy, wsConnected, wsTransportState,
               lastSnapshotKey, gameStateCursor, client, detailsPc, tokenPc,
               pollPc, pollSince, firstResponsePending, movePc, stale, bus, switches >>

healthVars == << isActive, healthCursor, transportMode, recoveryRetryMs, viewState,
                 healthPc, healthSince >>

pureVars == << apiIn, apiOut, keyIn, keyOut >>

busVars == << published, listeners, heard >>

clientVars == << phx, sockets, reported >>

Pub(state, message) == [state |-> state, message |-> message]

PubIdle == Pub("idle", None)
PubWsConnecting == Pub("ws-connecting", None)
PubWsConnected == Pub("ws-connected", None)
PubWsDisconnected == Pub("polling-fallback", Some("WebSocket disconnected, using long poll."))
PubWsUnavailable == Pub("polling-fallback", Some("WebSocket unavailable, using long poll."))
PubJoinFailed == Pub("polling-fallback", Some("WebSocket join failed, using long poll."))
PubWsError == Pub("polling-fallback", Some("WebSocket error, using long poll."))
PubListening == Pub("polling-fallback", Some("Listening for board updates over long poll."))

\* publishRealtimeStatus: the last value published is the one kept
BusAfter(pubs) == IF pubs = <<>> THEN bus ELSE pubs[Len(pubs)]

\* what a step did: the handler that ran (op), whether it belongs to an effect
\* already cleaned up (stale), the statuses it published, the requests it
\* issued, the frames it sent, the long-poll cycle it received, the delay it
\* started and the update it reconciled
\* (upd: its fingerprint and the fingerprint stored before it), the socket whose
\* event it handled, the callbacks it called and the value it returned
NoInfo == [ cycle |-> None, sleep |-> None, upd |-> None, sock |-> None,
            cb |-> <<>>, ret |-> None ]

Step(op, isStale, pubs, reqs, out, info) ==
  [ op |-> op, stale |-> isStale, pubs |-> pubs, reqs |-> reqs, out |-> out,
    cycle |-> info.cycle, sleep |-> info.sleep, upd |-> info.upd,
    sock |-> info.sock, cb |-> info.cb, ret |-> info.ret ]

Req(kind, g, since) == [kind |-> kind, g |-> g, since |-> since]

Topic(g) == "game:" \o ToString(g)

(***************************************************************************)
(* PhoenixGameSocket                                                       *)
(***************************************************************************)
Frame(joinRef, ref, topic, event, payload) ==
  [ joinRef |-> joinRef, ref |-> ref, topic |-> topic, event |-> event,
    payload |-> payload ]

\* a plausible bug: a frame that does not parse is reported as an error event
safeParseMessageLoose(data) ==
  IF data.w \in {"garbage", "shape"} \/ data.topic.t # "str" \/ data.event.t # "str"
  THEN Some([ joinRef |-> None, ref |-> None, topic |-> "game:1", event |-> "error",
              payload |-> [kind |-> "empty"] ])
  ELSE Some([ joinRef |-> IF data.joinRef.t = "str" THEN Some(data.joinRef.s) ELSE None,
              ref |-> IF data.ref.t = "str" THEN Some(data.ref.s) ELSE None,
              topic |-> data.topic.s, event |-> data.event.s, payload |-> data.payload ])

\* safeParseMessage: a wire frame is unparsable text, a JSON value of the wrong
\* shape, or the array or object form of a message whose topic and event are raw
\* JSON values
safeParseMessage(data) ==
  IF data.w \in {"garbage", "shape"} THEN None
  ELSE IF data.topic.t # "str" \/ data.event.t # "str" THEN None
  ELSE Some(Frame(IF data.joinRef.t = "str" THEN Some(data.joinRef.s) ELSE None,
                  IF data.ref.t = "str" THEN Some(data.ref.s) ELSE None,
                  data.topic.s, data.event.s, data.payload))

\* a plausible bug: the counter is not advanced, the next push reuses the ref
pushSameRef(c, topic, event, payload) ==
  IF c.sock # "open"
  THEN [ ref |-> None, client |-> c, out |-> <<>> ]
  ELSE [ ref |-> Some(ToString(c.ref + 1)),
         client |-> c,
         out |-> << [ joinRef |-> IF event = "phx_join" THEN None ELSE c.joinRef,
                      ref |-> Some(ToString(c.ref + 1)),
                      topic |-> topic, event |-> event, payload |-> payload ] >> ]

\* a plausible bug: every push carries a null joinRef
pushNoJoinRef(c, topic, event, payload) ==
  IF c.sock # "open"
  THEN [ ref |-> None, client |-> c, out |-> <<>> ]
  ELSE [ ref |-> Some(ToString(c.ref + 1)),
         client |-> [c EXCEPT !.ref = c.ref + 1],
         out |-> << [ joinRef |-> None, ref |-> Some(ToString(c.ref + 1)),
                      topic |-> topic, event |-> event, payload |-> payload ] >> ]

\* push: [ok, ref, client, out]
push(c, topic, event, payload) ==
  IF c.sock # "open"
  THEN [ ref |-> None, client |-> c, out |-> <<>> ]
  ELSE [ ref |-> Some(ToString(c.ref + 1)),
         client |-> [c EXCEPT !.ref = c.ref + 1],
         out |-> << Frame(IF event = "phx_join" THEN None ELSE c.joinRef,
                          Some(ToString(c.ref + 1)), topic, event, payload) >> ]

\* a plausible bug: any reply on the topic is taken for the join reply
IsJoinReplyAnyRef(c, message) == message.event = "phx_reply"

\* message.event === 'phx_reply' && message.ref === this.joinRef
IsJoinReply(c, message) == message.event = "phx_reply" /\ message.ref = c.joinRef

\* ws.onmessage: what the client does with a wire frame.  status is the
\* onStatusChange call, pubs the client's own publication (after that call),
\* events the onEvent calls, out the frames sent.
ClientOnMessage(c, topic, data) ==
  LET parsed == safeParseMessage(data)
      nothing == [ status |-> None, pubs |-> <<>>, events |-> <<>>, out |-> <<>>,
                   client |-> c ]
  IN  IF parsed = None THEN nothing
      ELSE IF Val(parsed).topic # topic THEN nothing
      ELSE LET message == Val(parsed) IN
        IF IsJoinReply(c, message)
        THEN IF message.payload.kind = "reply" /\ message.payload.status = "ok"
             THEN LET p == push(c, topic, "request_state", [kind |-> "empty"])
                  IN  [ status |-> Some("connected"), pubs |-> << PubWsConnected >>,
                        events |-> <<>>, out |-> p.out, client |-> p.client ]
             ELSE [ status |-> Some("disconnected"), pubs |-> << PubJoinFailed >>,
                    events |-> << [event |-> "error",
                                   payload |-> [kind |-> "message", message |-> "Join failed"]] >>,
                    out |-> <<>>, client |-> c ]
        ELSE [ nothing EXCEPT
                 !.events = << [event |-> message.event, payload |-> message.payload] >> ]

(***************************************************************************)
(* GameBoardPage: the callbacks given to the push client                   *)
(***************************************************************************)
\* a plausible bug: a lost channel is shown as still connecting
OnStatusChangeConnecting(status) ==
  IF status = "connected"
  THEN [ conn |-> TRUE, ts |-> "connected", pubs |-> << PubWsConnected >> ]
  ELSE [ conn |-> FALSE, ts |-> "connecting", pubs |-> << PubWsDisconnected >> ]

\* onStatusChange: [conn, ts, pubs]
OnStatusChange(status) ==
  CASE status = "connecting" ->
         [ conn |-> FALSE, ts |-> "connecting", pubs |-> << PubWsConnecting >> ]
    [] status = "connected" ->
         [ conn |-> TRUE, ts |-> "connected", pubs |-> << PubWsConnected >> ]
    [] OTHER ->
         [ conn |-> FALSE, ts |-> "disconnected", pubs |-> << PubWsDisconnected >> ]

\* parseRealtimePayload: None, or the partial game, the state and the players of
\* the payload.  A "delta" payload carries the changed game fields and the state
\* but no players, an "ended" payload only the end of the game.
parseRealtimePayload(payload, g) ==
  CASE payload.kind = "full" ->
         Some([ game |-> ServerGame(g, payload.v), state |-> ServerState(g, payload.v),
                players |-> ServerPlayers(g, payload.v) ])
    [] payload.kind = "delta" ->
         Some([ game |-> [ updatedAt |-> ServerGame(g, payload.v).updatedAt,
                           turnNumber |-> ServerGame(g, payload.v).turnNumber,
                           currentTurnUserId |-> ServerGame(g, payload.v).currentTurnUserId ],
                state |-> ServerState(g, payload.v),
                players |-> <<>> ])
    [] payload.kind = "ended" ->
         Some([ game |-> [ status |-> "finished", winnerUserId |-> Some(1) ],
                state |-> None, players |-> <<>> ])
    [] OTHER -> None

\* { ...baseGame, ...parsed.game }
Merge(base, partial) ==
  [ f \in DOMAIN base |-> IF f \in DOMAIN partial THEN partial[f] ELSE base[f] ]

\* a plausible bug: every update replaces the displayed state
ShouldReplaceAlways(nextKey, lastKey) == TRUE

\* nextKey !== lastSnapshotKeyRef.current
ShouldReplace(nextKey, lastKey) == Some(nextKey) # lastKey

\* setDetails((prev) => prev ? { ...prev, game, state, players } : prev)
DetailsWith(prev, snap) == IF IsSome(prev) THEN Some(snap) ELSE prev

\* onEvent on the page state s = [live, details, key, moveBusy, moveError]; upd
\* is the update it reconciled
OnEvent(s, g, event, payload) ==
  IF event \in {"state_snapshot", "state_updated"}
  THEN LET parsed == parseRealtimePayload(payload, g)
           baseGame == IF IsSome(s.live) THEN Some(Val(s.live).game)
                       ELSE IF IsSome(s.details) THEN Some(Val(s.details).game)
                       ELSE None
       IN  IF parsed = None \/ baseGame = None THEN s
           ELSE LET nextGame == Merge(Val(baseGame), Val(parsed).game)
                    nextPlayers ==
                      IF Len(Val(parsed).players) > 0 THEN Val(parsed).players
                      ELSE IF IsSome(s.live) THEN Val(s.live).players
                      ELSE IF IsSome(s.details) THEN Val(s.details).players
                      ELSE <<>>
                    nextState ==
                      IF IsSome(Val(parsed).state) THEN Val(parsed).state
                      ELSE IF IsSome(s.live) /\ IsSome(Val(s.live).state) THEN Val(s.live).state
                      ELSE IF IsSome(s.details) THEN Val(s.details).state
                      ELSE None
                    snap == [game |-> nextGame, state |-> nextState, players |-> nextPlayers]
                    nextKey == buildStateSnapshotKey(nextGame, nextState, nextPlayers)
                    upd == Some([key |-> nextKey, prev |-> s.key])
                IN  IF ShouldReplace(nextKey, s.key)
                    THEN [ s EXCEPT !.key = Some(nextKey), !.live = Some(snap),
                                    !.details = DetailsWith(s.details, snap),
                                    !.moveBusy = FALSE, !.upd = upd ]
                    ELSE [ s EXCEPT !.moveBusy = FALSE, !.upd = upd ]
  ELSE IF event = "move_applied" THEN [ s EXCEPT !.moveBusy = FALSE ]
  ELSE IF event = "error"
  THEN [ s EXCEPT !.moveError =
           Some(IF payload.kind = "message" THEN payload.message ELSE "WebSocket error") ]
  ELSE s

RECURSIVE OnEvents(_, _, _)
OnEvents(s, g, events) ==
  IF events = <<>> THEN s
  ELSE OnEvents(OnEvent(s, g, events[1].event, events[1].payload), g, Tail(events))

(***************************************************************************)
(* gamesApi: the requests of the game page.  An outcome is what the        *)
(* network gives: [kind |-> "abort"], [kind |-> "network"],                *)
(* [kind |-> "http", status |-> n], [kind |-> "badjson"] or                *)
(* [kind |-> "json", v, cursor, timeout] with raw meta fields.             *)
(***************************************************************************)
HttpStatuses == {401, 500}

ApiError(outcome) ==
  CASE outcome.kind = "abort" -> "AbortError"
    [] outcome.kind = "network" -> "Failed to fetch"
    [] outcome.kind = "badjson" -> "Invalid game payload"
    [] outcome.kind = "http" /\ outcome.status = 401 -> "Authentication required"
    [] outcome.kind = "http" /\ outcome.status = 404 -> "Game not found"
    [] OTHER -> "HTTP " \o ToString(outcome.status)

\* getGameStateLongPoll: the cycle it resolves with, or the error it rejects with
getGameStateLongPoll(g, outcome) ==
  IF outcome.kind = "json"
  THEN [ ok |-> TRUE,
         cycle |-> [ data |-> ServerSnapshot(g, outcome.v),
                     cursor |-> parseLongPollMeta(outcome).cursor,
                     timedOut |-> parseLongPollMeta(outcome).timedOut ] ]
  ELSE [ ok |-> FALSE, err |-> ApiError(outcome) ]

\* getGameDetails
getGameDetails(g, outcome) ==
  IF outcome.kind = "json"
  THEN [ ok |-> TRUE, data |-> ServerSnapshot(g, outcome.v) ]
  ELSE [ ok |-> FALSE, err |-> ApiError(outcome) ]

\* moveGame: the game, board and players after the move, or the error
moveGame(g, outcome) ==
  IF outcome.kind = "json"
  THEN [ ok |-> TRUE, data |-> ServerSnapshot(g, outcome.v) ]
  ELSE [ ok |-> FALSE, err |-> ApiError(outcome) ]

\* the meta fields the game-state endpoint answers with
PollCursors == {Absent} \cup {Str(c) : c \in CursorStrings}
PollTimeouts == {Bool(TRUE), Bool(FALSE)}

PollOutcomes ==
  {[kind |-> "network"]}
  \cup {[kind |-> "http", status |-> n] : n \in HttpStatuses}
  \cup {[kind |-> "json", v |-> v, cursor |-> c, timeout |-> t] :
          v \in Versions, c \in PollCursors, t \in PollTimeouts}

DetailsOutcomes ==
  {[kind |-> "network"]}
  \cup {[kind |-> "http", status |-> n] : n \in HttpStatuses}
  \cup {[kind |-> "json", v |-> v] : v \in Versions}

Aborted == [kind |-> "abort"]

(***************************************************************************)
(* GameBoardPage: the bodies of the async functions, from one await to the *)
(* next.  active is the effect's closure flag.                             *)
(***************************************************************************)
\* a plausible bug: the poll loop applies a result without asking `active`
IsLiveIgnoringActive(active) == TRUE

\* if (!active) return
IsLive(active) == active

\* the details effect after `await getGameDetails`, on s = [details, live, key,
\* error, loading]
DetailsCycle(active, s, g, outcome) ==
  LET r == getGameDetails(g, outcome) IN
  IF r.ok
  THEN IF active
       THEN [ s EXCEPT !.details = Some(r.data), !.live = Some(r.data),
                       !.key = Some(KeyOf(r.data)), !.loading = FALSE ]
       ELSE s
  ELSE IF r.err = "AbortError" THEN s
  ELSE IF active THEN [ s EXCEPT !.error = Some(r.err), !.loading = FALSE ]
  ELSE s

\* the delay of the poll loop after a failed cycle
PollRetryMs == 1500

\* one turn of `run` after `await getGameStateLongPoll`, on s = [cursor, key, live,
\* details, error, first, loadingState]; next is what the loop does then:
\* "request" (the next long poll), "sleep" (delay(1500)) or "return"
GamePollCycle(active, s, g, outcome) ==
  LET r == getGameStateLongPoll(g, outcome)
      stop == [ s |-> s, next |-> "return", info |-> NoInfo ]
  IN
  IF r.ok
  THEN IF ~IsLive(active) THEN stop
       ELSE LET cur == Coalesce(r.cycle.cursor, s.cursor)
                meta == Some([timedOut |-> r.cycle.timedOut, cursor |-> r.cycle.cursor])
            IN
            IF r.cycle.timedOut
            THEN [ s |-> [s EXCEPT !.cursor = cur], next |-> "request",
                   info |-> [NoInfo EXCEPT !.cycle = meta] ]
            ELSE LET nextKey == KeyOf(r.cycle.data)
                     s1 == IF ShouldReplace(nextKey, s.key)
                           THEN [ s EXCEPT !.cursor = cur, !.key = Some(nextKey),
                                           !.live = Some(r.cycle.data),
                                           !.details = DetailsWith(s.details, r.cycle.data) ]
                           ELSE [ s EXCEPT !.cursor = cur ]
                 IN  [ s |-> [ s1 EXCEPT !.error = None, !.first = FALSE,
                                         !.loadingState = IF s.first THEN FALSE
                                                          ELSE s.loadingState ],
                       next |-> "request",
                       info |-> [ NoInfo EXCEPT
                                    !.cycle = meta,
                                    !.upd = Some([key |-> nextKey, prev |-> s.key]) ] ]
  ELSE IF r.err = "AbortError" THEN stop
  ELSE IF ~IsLive(active) THEN stop
  ELSE [ s |-> [ s EXCEPT !.error = Some(r.err), !.first = FALSE,
                          !.loadingState = IF s.first THEN FALSE ELSE s.loadingState ],
         next |-> "sleep", info |-> [NoInfo EXCEPT !.sleep = Some(PollRetryMs)] ]

\* a plausible bug: the loop does not look at its flags before the next turn
LoopContinuesAlways(active, aborted) == TRUE

\* while (active && !controller.signal.aborted)
LoopContinues(active, aborted) == active /\ ~aborted

\* the poll effect of a render whose closure holds conn and ts: its cleanup when
\* it re-runs, and its body.  p = [pc, since, first, loadingState] is the loop the
\* previous run left; oldG the game that loop polls.
PollEffect(rerun, conn, ts, g, oldG, key, cursor, p) ==
  IF ~rerun
  THEN [ p |-> p, pubs |-> <<>>, reqs |-> <<>>, stale |-> {} ]
  ELSE LET left == IF p.pc = "none" THEN {}
                   ELSE {[ kind |-> IF p.pc = "inflight" THEN "poll" ELSE "sleep",
                           g |-> oldG, errored |-> FALSE ]}
       IN  IF conn \/ ts # "disconnected"
           THEN [ p |-> [p EXCEPT !.pc = "none", !.since = None, !.first = FALSE],
                  pubs |-> <<>>, reqs |-> <<>>, stale |-> left ]
           ELSE [ p |-> [ pc |-> "inflight", since |-> cursor, first |-> (key = None),
                          loadingState |-> (key = None) ],
                  pubs |-> << PubListening >>,
                  reqs |-> << Req("long-poll", g, cursor) >>,
                  stale |-> left ]

(***************************************************************************)
(* GameBoardPage: steps                                                    *)
(***************************************************************************)
Cur ==
  [ mounted |-> mounted, gameId |-> gameId, details |-> details, live |-> live,
    loading |-> loading, loadingState |-> loadingState, error |-> error,
    moveError |-> moveError, moveBusy |-> moveBusy, wsConnected |-> wsConnected,
    wsTransportState |-> wsTransportState, lastSnapshotKey |-> lastSnapshotKey,
    gameStateCursor |-> gameStateCursor, client |-> client, detailsPc |-> detailsPc,
    tokenPc |-> tokenPc, pollPc |-> pollPc, pollSince |-> pollSince,
    firstResponsePending |-> firstResponsePending, movePc |-> movePc,
    stale |-> stale, bus |-> bus, switches |-> switches ]

\* the state of a page that is not mounted
Blank ==
  [ mounted |-> FALSE, gameId |-> 1, details |-> None, live |-> None,
    loading |-> FALSE, loadingState |-> FALSE, error |-> None,
    moveError |-> None, moveBusy |-> FALSE, wsConnected |-> FALSE,
    wsTransportState |-> "idle", lastSnapshotKey |-> None,
    gameStateCursor |-> None, client |-> None, detailsPc |-> "none",
    tokenPc |-> "none", pollPc |-> "none", pollSince |-> None,
    firstResponsePending |-> FALSE, movePc |-> None, stale |-> {}, bus |-> PubIdle,
    switches |-> 0 ]

PageSet(n, step) ==
  /\ mounted' = n.mounted /\ gameId' = n.gameId /\ details' = n.details
  /\ live' = n.live /\ loading' = n.loading /\ loadingState' = n.loadingState
  /\ error' = n.error /\ moveError' = n.moveError /\ moveBusy' = n.moveBusy
  /\ wsConnected' = n.wsConnected /\ wsTransportState' = n.wsTransportState
  /\ lastSnapshotKey' = n.lastSnapshotKey /\ gameStateCursor' = n.gameStateCursor
  /\ client' = n.client /\ detailsPc' = n.detailsPc /\ tokenPc' = n.tokenPc
  /\ pollPc' = n.pollPc /\ pollSince' = n.pollSince
  /\ firstResponsePending' = n.firstResponsePending /\ movePc' = n.movePc
  /\ stale' = n.stale
  /\ bus' = n.bus /\ switches' = n.switches
  /\ last' = step
  /\ unit' = unit

Set(n, step) ==
  /\ PageSet(n, step)
  /\ UNCHANGED << healthVars, pureVars, busVars, clientVars >>

\* the handler left the page at n and published pubs; the render that follows
\* re-runs the poll effect when one of its dependencies changed (nonce: the
\* handler called setPollNonce)
Rerender(nonce, n, op, isStale, pubs, reqs, out, info) ==
  LET R == PollEffect(nonce \/ n.wsConnected # wsConnected
                        \/ n.wsTransportState # wsTransportState,
                      n.wsConnected, n.wsTransportState, n.gameId, gameId,
                      n.lastSnapshotKey, n.gameStateCursor,
                      [ pc |-> n.pollPc, since |-> n.pollSince,
                        first |-> n.firstResponsePending,
                        loadingState |-> n.loadingState ])
  IN  Set([ n EXCEPT !.pollPc = R.p.pc, !.pollSince = R.p.since,
                     !.firstResponsePending = R.p.first,
                     !.loadingState = R.p.loadingState,
                     !.stale = n.stale \cup R.stale,
                     !.bus = BusAfter(pubs \o R.pubs) ],
          Step(op, isStale, pubs \o R.pubs, reqs \o R.reqs, out, info))

\* the render after a handler that left pollNonce alone
Render(n, op, isStale, pubs, reqs, out, info) ==
  Rerender(FALSE, n, op, isStale, pubs, reqs, out, info)

\* a callback of a page that is gone: its setters do nothing, its publications
\* reach the bus
Gone(st, op, pubs) ==
  Set([ Cur EXCEPT !.stale = st, !.bus = BusAfter(pubs) ],
      Step(op, TRUE, pubs, <<>>, <<>>, NoInfo))

\* what the cleanups of the socket and poll effects leave pending (the details
\* request is aborted too; whatever it settles with, DetailsCycle drops it)
Left ==
  (IF tokenPc = "inflight"
   THEN {[kind |-> "token", g |-> gameId, errored |-> FALSE]} ELSE {})
  \cup (IF IsSome(client) /\ Val(client).sock # "closed"
        THEN {[kind |-> "socket", g |-> gameId,
               errored |-> (Val(client).sock = "closing")]} ELSE {})
  \cup (IF pollPc # "none"
        THEN {[kind |-> IF pollPc = "inflight" THEN "poll" ELSE "sleep", g |-> gameId,
               errored |-> FALSE]} ELSE {})

\* The page mounts on /games/g: the details effect, the websocket effect
\* (connectWs up to `await fetchRealtimeToken`), the poll effect (idle: returns)
\* and the reset effect run.
Mount(g) ==
  /\ unit = "game"
  /\ ~mounted /\ last.op = "Init"
  /\ Set([ Cur EXCEPT !.mounted = TRUE, !.gameId = g, !.loading = TRUE,
                      !.error = None, !.detailsPc = "inflight",
                      !.wsTransportState = "connecting", !.tokenPc = "inflight",
                      !.gameStateCursor = None, !.lastSnapshotKey = None ],
         Step("Mount", FALSE, <<>>,
              << Req("details", g, None), Req("token", g, None) >>, <<>>, NoInfo))

\* The page unmounts: every effect is cleaned up.
Unmount ==
  /\ unit = "game"
  /\ mounted
  /\ Set([ Blank EXCEPT
             !.stale = stale \cup Left, !.switches = switches,
             !.bus = PubIdle ],
         Step("Unmount", FALSE, << PubIdle >>, <<>>, <<>>, NoInfo))

\* The route changes to another game: the cleanups of the details, websocket and
\* poll effects run, then the effect bodies in the order of their declaration, the
\* poll effect with the wsConnected and wsTransportState of the render that saw
\* the new id; the render that follows re-runs the poll effect.
SwitchGame(g) ==
  /\ unit = "game"
  /\ mounted
  /\ g # gameId
  /\ switches < MaxSwitches
  /\ LET first == PollEffect(TRUE, wsConnected, wsTransportState, g, gameId,
                             lastSnapshotKey, gameStateCursor,
                             [ pc |-> "none", since |-> None, first |-> FALSE,
                               loadingState |-> loadingState ])
         second == PollEffect(wsConnected # FALSE \/ wsTransportState # "connecting",
                              FALSE, "connecting", g, g, None, None, first.p)
     IN  Set([ Cur EXCEPT !.gameId = g, !.switches = switches + 1,
                          !.loading = TRUE, !.error = None,
                          !.detailsPc = "inflight", !.tokenPc = "inflight",
                          !.client = None, !.wsConnected = FALSE,
                          !.wsTransportState = "connecting",
                          !.moveError = None, !.gameStateCursor = None,
                          !.lastSnapshotKey = None,
                          !.pollPc = second.p.pc, !.pollSince = second.p.since,
                          !.firstResponsePending = second.p.first,
                          !.loadingState = second.p.loadingState,
                          !.stale = stale \cup Left \cup second.stale,
                          !.bus = BusAfter(<< PubIdle >> \o first.pubs \o second.pubs) ],
             Step("SwitchGame", FALSE, << PubIdle >> \o first.pubs \o second.pubs,
                  << Req("details", g, None), Req("token", g, None) >>
                    \o first.reqs \o second.reqs, <<>>, NoInfo))

\* `await getGameDetails` of the live details effect settles
DetailsDone(outcome) ==
  /\ unit = "game"
  /\ detailsPc = "inflight"
  /\ LET s == DetailsCycle(TRUE,
                [ details |-> details, live |-> live, key |-> lastSnapshotKey,
                  error |-> error, loading |-> loading ], gameId, outcome)
     IN  Render([ Cur EXCEPT !.details = s.details, !.live = s.live,
                             !.lastSnapshotKey = s.key, !.error = s.error,
                             !.loading = s.loading, !.detailsPc = "none" ],
                "DetailsDone", FALSE, <<>>, <<>>, <<>>, NoInfo)

\* `await fetchRealtimeToken` resolves: the client is created and connect() runs
TokenResolve ==
  /\ unit = "game"
  /\ tokenPc = "inflight"
  /\ LET st == OnStatusChange("connecting")
     IN  Render([ Cur EXCEPT !.tokenPc = "none",
                             !.client = Some([sock |-> "connecting", ref |-> 0,
                                              joinRef |-> None]),
                             !.wsConnected = st.conn, !.wsTransportState = st.ts ],
                "TokenResolve", FALSE, st.pubs \o << PubWsConnecting >>,
                << Req("socket", gameId, None) >>, <<>>, NoInfo)

\* the catch block of connectWs
ConnectWsCatch(n) ==
  [ n EXCEPT !.wsConnected = FALSE, !.wsTransportState = "disconnected" ]

\* `await fetchRealtimeToken` rejects
TokenReject ==
  /\ unit = "game"
  /\ tokenPc = "inflight"
  /\ Render(ConnectWsCatch([Cur EXCEPT !.tokenPc = "none"]),
            "TokenReject", FALSE, << PubWsUnavailable >>, <<>>, <<>>, NoInfo)

(***************************************************************************)
(* The socket of the live client                                           *)
(***************************************************************************)
Empty == [kind |-> "empty"]
Reply(status) == [kind |-> "reply", status |-> status]
Wire(w, joinRef, ref, topic, event, payload) ==
  [ w |-> w, joinRef |-> joinRef, ref |-> ref, topic |-> topic, event |-> event,
    payload |-> payload ]

SnapshotPayloads ==
  {[kind |-> "bad"], [kind |-> "ended"]}
  \cup {[kind |-> k, v |-> v] : k \in {"full", "delta"}, v \in Versions}

\* the frames a server can send on the socket of game g
WireFrames(g) ==
  { [w |-> "garbage"], [w |-> "shape"],
    Wire("array", Absent, Absent, Num, Str("state_snapshot"), [kind |-> "full", v |-> 1]),
    Wire("array", Absent, Absent, Str(Topic(g)), Num, Empty),
    Wire("array", Absent, Absent, Str("game:0"), Str("state_snapshot"), [kind |-> "full", v |-> 1]),
    Wire("array", Absent, Str("1"), Str("game:0"), Str("phx_reply"), Reply("ok")),
    Wire("array", Str("1"), Absent, Str(Topic(g)), Str("move_applied"), Empty),
    Wire("array", Str("1"), Absent, Str(Topic(g)), Str("presence_diff"), Empty),
    Wire("object", Str("1"), Absent, Str(Topic(g)), Str("error"), Empty) }
  \cup { Wire(w, Str("1"), r, Str(Topic(g)), Str("phx_reply"), Reply(st)) :
           w \in {"array", "object"}, r \in {Absent, Num, Str("1"), Str("2")},
           st \in {"ok", "error"} }
  \cup { Wire("array", Str("1"), Absent, Str(Topic(g)), Str(e), pl) :
           e \in {"state_snapshot", "state_updated"}, pl \in SnapshotPayloads }

\* the replies to the join of the first socket of a page (its ref is "1")
JoinReplies(g) ==
  { Wire("array", Str("1"), Str("1"), Str(Topic(g)), Str("phx_reply"), Reply(st)) :
      st \in {"ok", "error"} }

SnapshotFrames(g) ==
  { Wire("array", Str("1"), Absent, Str(Topic(g)), Str(e), pl) :
      e \in {"state_snapshot", "state_updated"}, pl \in SnapshotPayloads }

\* the answers of a game-state endpoint that never fails
SnapshotOutcomes ==
  {[kind |-> "json", v |-> v, cursor |-> Str("c1"), timeout |-> t] :
     v \in Versions, t \in {Bool(FALSE), Bool(TRUE)}}

PageOf(n) ==
  [ live |-> n.live, details |-> n.details, key |-> n.lastSnapshotKey,
    moveBusy |-> n.moveBusy, moveError |-> n.moveError, upd |-> None ]

WithPage(n, s) ==
  [ n EXCEPT !.live = s.live, !.details = s.details, !.lastSnapshotKey = s.key,
             !.moveBusy = s.moveBusy, !.moveError = s.moveError ]

\* ws.onopen
SocketOpen ==
  /\ unit = "game"
  /\ IsSome(client) /\ Val(client).sock = "connecting"
  /\ LET p == push([Val(client) EXCEPT !.sock = "open"], Topic(gameId), "phx_join", Empty)
     IN  Render([ Cur EXCEPT !.client = Some([p.client EXCEPT !.joinRef = p.ref]) ],
                "SocketOpen", FALSE, <<>>, <<>>, p.out, NoInfo)

\* ws.onmessage
SocketMessage(data) ==
  /\ unit = "game"
  /\ IsSome(client) /\ Val(client).sock = "open"
  /\ ClientOnMessage(Val(client), Topic(gameId), data).client.ref <= MaxRef
  /\ LET res == ClientOnMessage(Val(client), Topic(gameId), data)
         st == IF IsSome(res.status) THEN OnStatusChange(Val(res.status))
               ELSE [ conn |-> wsConnected, ts |-> wsTransportState, pubs |-> <<>> ]
         n1 == [ Cur EXCEPT !.client = Some(res.client), !.wsConnected = st.conn,
                            !.wsTransportState = st.ts ]
         s == OnEvents(PageOf(n1), gameId, res.events)
     IN  Render(WithPage(n1, s), "SocketMessage", FALSE, st.pubs \o res.pubs, <<>>,
                res.out, [NoInfo EXCEPT !.upd = s.upd])

\* ws.onerror, on the page state n: the client publishes, then calls onEvent
OnSocketError(n) ==
  [ n |-> WithPage(n, OnEvent(PageOf(n), n.gameId, "error",
                              [kind |-> "message", message |-> "WebSocket error"])),
    pubs |-> << PubWsError >> ]

\* a plausible bug: a close publishes the fallback and tells the page nothing
OnSocketCloseSilent(n) == [ n |-> n, pubs |-> << PubWsDisconnected >> ]

\* a plausible bug: the client reconnects when its socket closes
OnSocketCloseReconnect(n) ==
  [ n |-> IF IsSome(n.client)
          THEN [n EXCEPT !.client = Some([Val(n.client) EXCEPT !.sock = "connecting"])]
          ELSE n,
    pubs |-> << PubWsConnecting >> ]

\* ws.onclose, on the page state n: the client calls onStatusChange, then publishes
OnSocketClose(n) ==
  LET st == OnStatusChange("disconnected")
  IN  [ n |-> [n EXCEPT !.wsConnected = st.conn, !.wsTransportState = st.ts],
        pubs |-> st.pubs \o << PubWsDisconnected >> ]

\* the live socket fails: the error event, the close event is to follow
SocketError ==
  /\ unit = "game"
  /\ IsSome(client) /\ Val(client).sock \in {"connecting", "open"}
  /\ LET h == OnSocketError([Cur EXCEPT !.client = Some([Val(client) EXCEPT !.sock = "closing"])])
     IN  Render(h.n, "SocketError", FALSE, h.pubs, <<>>, <<>>, NoInfo)

\* the live socket closes
SocketClose ==
  /\ unit = "game"
  /\ IsSome(client) /\ Val(client).sock \in {"connecting", "open", "closing"}
  /\ LET h == OnSocketClose([Cur EXCEPT !.client = Some([Val(client) EXCEPT !.sock = "closed"])])
     IN  Render(h.n, "SocketClose", FALSE, h.pubs, <<>>, <<>>, NoInfo)

\* handleMove over the push channel, for a target validateMoveTarget accepts
HandleMoveWs ==
  /\ unit = "game"
  /\ mounted
  /\ IsSome(live) /\ IsSome(Val(live).state)
  /\ wsConnected /\ IsSome(client) /\ Val(client).sock = "open"
  /\ Val(client).ref < MaxRef
  /\ LET p == push(Val(client), Topic(gameId), "move", [kind |-> "move"])
     IN  Render([ Cur EXCEPT !.client = Some(p.client),
                             !.moveBusy = IsSome(p.ref),
                             !.moveError = IF IsSome(p.ref) THEN None
                                           ELSE Some("Failed to send move over WebSocket") ],
                "HandleMoveWs", FALSE, <<>>, <<>>, p.out, NoInfo)

\* handleMove without a joined socket, for a target validateMoveTarget accepts
\* (the move controls are disabled while moveBusy)
HandleMoveHttp ==
  /\ unit = "game"
  /\ mounted
  /\ IsSome(live) /\ IsSome(Val(live).state)
  /\ ~moveBusy /\ movePc = None
  /\ ~(wsConnected /\ IsSome(client) /\ Val(client).sock = "open")
  /\ Render([ Cur EXCEPT !.moveBusy = TRUE, !.moveError = None,
                          !.movePc = Some(gameId) ],
            "HandleMoveHttp", FALSE, <<>>, << Req("move", gameId, None) >>, <<>>, NoInfo)

\* `await moveGame` of handleMove settles: the result is displayed and
\* setPollNonce restarts the poll effect, or the error is shown
MoveDone(outcome) ==
  /\ unit = "game"
  /\ mounted /\ IsSome(movePc)
  /\ LET r == moveGame(Val(movePc), outcome)
     IN  IF r.ok
         THEN Rerender(TRUE,
                       [ Cur EXCEPT !.live = Some(r.data),
                                    !.details = DetailsWith(details, r.data),
                                    !.moveBusy = FALSE, !.movePc = None ],
                       "MoveDone", FALSE, <<>>, <<>>, <<>>, NoInfo)
         ELSE Render([ Cur EXCEPT !.moveError = Some(r.err), !.moveBusy = FALSE,
                                  !.movePc = None ],
                     "MoveDone", FALSE, <<>>, <<>>, <<>>, NoInfo)

(***************************************************************************)
(* The poll loop of the live poll effect                                   *)
(***************************************************************************)
PollOf(n) ==
  [ cursor |-> n.gameStateCursor, key |-> n.lastSnapshotKey, live |-> n.live,
    details |-> n.details, error |-> n.error, first |-> n.firstResponsePending,
    loadingState |-> n.loadingState ]

WithPoll(n, s) ==
  [ n EXCEPT !.gameStateCursor = s.cursor, !.lastSnapshotKey = s.key, !.live = s.live,
             !.details = s.details, !.error = s.error,
             !.firstResponsePending = s.first, !.loadingState = s.loadingState ]

\* `await getGameStateLongPoll` of the live loop settles
PollDone(outcome) ==
  /\ unit = "game"
  /\ pollPc = "inflight"
  /\ LET r == GamePollCycle(TRUE, PollOf(Cur), gameId, outcome)
         n == WithPoll(Cur, r.s)
     IN  CASE r.next = "request" /\ LoopContinues(TRUE, FALSE) ->
                Render([n EXCEPT !.pollPc = "inflight", !.pollSince = n.gameStateCursor],
                       "PollDone", FALSE, <<>>,
                       << Req("long-poll", gameId, n.gameStateCursor) >>, <<>>, r.info)
           [] r.next = "sleep" ->
                Render([n EXCEPT !.pollPc = "sleeping", !.pollSince = None],
                       "PollDone", FALSE, <<>>, <<>>, <<>>, r.info)
           [] OTHER ->
                Render([n EXCEPT !.pollPc = "none", !.pollSince = None],
                       "PollDone", FALSE, <<>>, <<>>, <<>>, r.info)

\* `await delay(1500)` of the live loop is over
PollWake ==
  /\ unit = "game"
  /\ pollPc = "sleeping"
  /\ IF LoopContinues(TRUE, FALSE)
     THEN Render([Cur EXCEPT !.pollPc = "inflight", !.pollSince = gameStateCursor],
                 "PollWake", FALSE, <<>>,
                 << Req("long-poll", gameId, gameStateCursor) >>, <<>>, NoInfo)
     ELSE Render([Cur EXCEPT !.pollPc = "none"], "PollWake", FALSE, <<>>, <<>>, <<>>, NoInfo)

(***************************************************************************)
(* What effects already cleaned up left pending.  Their controller is      *)
(* aborted and their `active` is false; the handlers of their socket are   *)
(* still attached.  A record of stale is [kind, g, errored]; g is the game *)
(* of the effect.  Once the page is unmounted the setters of a callback do *)
(* nothing.                                                                *)
(***************************************************************************)
\* fetchRealtimeToken(signal) settles with a token or an error; aborted, it may
\* reject with the AbortError of fetch
TokenOutcomes(aborted) == {"token", "error"} \cup (IF aborted THEN {"abort"} ELSE {})

\* `await fetchRealtimeToken` of a cleaned-up websocket effect settles: with a
\* token `if (!active) return`, with a rejection the catch block
StaleToken(x, outcome) ==
  /\ unit = "game"
  /\ x \in stale /\ x.kind = "token"
  /\ LET pubs == IF outcome = "token" THEN <<>> ELSE << PubWsUnavailable >>
     IN  IF ~mounted THEN Gone(stale \ {x}, "StaleToken", pubs)
         ELSE Render(IF outcome = "token" THEN [Cur EXCEPT !.stale = stale \ {x}]
                     ELSE ConnectWsCatch([Cur EXCEPT !.stale = stale \ {x}]),
                     "StaleToken", TRUE, pubs, <<>>, <<>>, NoInfo)

\* the error event of a socket that disconnect() closed
StaleSocketError(x) ==
  /\ unit = "game"
  /\ x \in stale /\ x.kind = "socket" /\ ~x.errored
  /\ LET st == (stale \ {x}) \cup {[x EXCEPT !.errored = TRUE]}
         h == OnSocketError([Cur EXCEPT !.stale = st])
     IN  IF ~mounted THEN Gone(st, "StaleSocketError", h.pubs)
         ELSE Render(h.n, "StaleSocketError", TRUE, h.pubs, <<>>, <<>>, NoInfo)

\* the close event of a socket that disconnect() closed
StaleSocketClose(x) ==
  /\ unit = "game"
  /\ x \in stale /\ x.kind = "socket"
  /\ LET h == OnSocketClose([Cur EXCEPT !.stale = stale \ {x}])
     IN  IF ~mounted THEN Gone(stale \ {x}, "StaleSocketClose", h.pubs)
         ELSE Render(h.n, "StaleSocketClose", TRUE, h.pubs, <<>>, <<>>, NoInfo)

\* `await getGameStateLongPoll` of a cleaned-up poll effect settles
StalePoll(x, outcome) ==
  /\ unit = "game"
  /\ x \in stale /\ x.kind = "poll"
  /\ LET r == GamePollCycle(FALSE, PollOf(Cur), x.g, outcome)
         asleep == IF r.next = "sleep" THEN {[x EXCEPT !.kind = "sleep"]} ELSE {}
         st == (stale \ {x}) \cup asleep
     IN  IF ~mounted THEN Gone(st, "StalePoll", <<>>)
         ELSE Render([ WithPoll(Cur, r.s) EXCEPT
                         !.firstResponsePending = firstResponsePending,
                         !.stale = st ],
                     "StalePoll", TRUE, <<>>, <<>>, <<>>, r.info)

\* `await delay(1500)` of a cleaned-up poll effect is over
StaleWake(x) ==
  /\ unit = "game"
  /\ x \in stale /\ x.kind = "sleep"
  /\ LET again == LoopContinues(FALSE, TRUE)
         st == (stale \ {x}) \cup (IF again THEN {[x EXCEPT !.kind = "poll"]} ELSE {})
         reqs == IF again THEN << Req("long-poll", x.g, gameStateCursor) >> ELSE <<>>
     IN  Set([Cur EXCEPT !.stale = st], Step("StaleWake", TRUE, <<>>, reqs, <<>>, NoInfo))

(***************************************************************************)
(* healthApi.  A result is [kind |-> "up", statusText] or                  *)
(* [kind |-> "down", statusText |-> "DOWN", error].  An outcome of fetch   *)
(* is [kind |-> "abort"], [kind |-> "network"], [kind |-> "http", status]  *)
(* or [kind |-> "json", body, cursor, timeout] with raw JSON fields (body   *)
(* is the `status` field of the payload).                                  *)
(***************************************************************************)
Up(statusText) == [kind |-> "up", statusText |-> statusText]

\* getDownResult
getDownResult(message) == [kind |-> "down", statusText |-> "DOWN", error |-> message]

\* the message of the error fetch or the function throws for an outcome
HealthError(outcome) ==
  IF outcome.kind = "network" THEN "Failed to fetch"
  ELSE "HTTP " \o ToString(outcome.status) \o " Error"

\* parseHealthPayload
parseHealthPayload(data) ==
  [ statusText |-> IF data.body.t = "str" /\ TrimStr(data.body.s) # ""
                   THEN data.body.s ELSE "UP",
    cursor |-> ParseCursor(data.cursor),
    timedOut |-> ParseTimedOut(data.timeout) ]

\* a plausible bug: 405 is taken for a transient failure
UnsupportedStatusesWithout405 == {404, 501}

\* response.status === 404 || response.status === 405 || response.status === 501
UnsupportedStatuses == {404, 405, 501}

\* a plausible bug: a transient failure is thrown to the caller
fetchHealthStatusLongPollThrows(sinceCursor, outcome) ==
  CASE outcome.kind = "abort" -> [ thrown |-> Some("AbortError") ]
    [] outcome.kind = "http" /\ outcome.status \in UnsupportedStatuses ->
         [ thrown |-> Some("UnsupportedLongPollingError") ]
    [] outcome.kind = "json" ->
         [ thrown |-> None,
           cycle |-> [ result |-> Up(parseHealthPayload(outcome).statusText),
                       cursor |-> parseHealthPayload(outcome).cursor,
                       timedOut |-> parseHealthPayload(outcome).timedOut ] ]
    [] OTHER -> [ thrown |-> Some(HealthError(outcome)) ]

\* fetchHealthStatusLongPoll: [thrown] or [cycle]
fetchHealthStatusLongPoll(sinceCursor, outcome) ==
  CASE outcome.kind = "abort" -> [ thrown |-> Some("AbortError") ]
    [] outcome.kind = "http" /\ outcome.status \in UnsupportedStatuses ->
         [ thrown |-> Some("UnsupportedLongPollingError") ]
    [] outcome.kind = "json" ->
         [ thrown |-> None,
           cycle |-> [ result |-> Up(parseHealthPayload(outcome).statusText),
                       cursor |-> parseHealthPayload(outcome).cursor,
                       timedOut |-> parseHealthPayload(outcome).timedOut ] ]
    [] OTHER ->
         [ thrown |-> None,
           cycle |-> [ result |-> getDownResult(HealthError(outcome)),
                       cursor |-> sinceCursor, timedOut |-> FALSE ] ]

\* fetchHealthStatusSnapshot: [thrown] or [result]
fetchHealthStatusSnapshot(outcome) ==
  CASE outcome.kind = "abort" -> [ thrown |-> Some("AbortError") ]
    [] outcome.kind = "json" ->
         [ thrown |-> None,
           result |-> Up(IF outcome.body.t = "str" /\ TrimStr(outcome.body.s) # ""
                         THEN outcome.body.s ELSE "UP") ]
    [] OTHER -> [ thrown |-> None, result |-> getDownResult(HealthError(outcome)) ]

HealthPollOutcomes ==
  {[kind |-> "network"]}
  \cup {[kind |-> "http", status |-> n] : n \in UnsupportedStatuses \cup {500}}
  \cup {[kind |-> "json", body |-> st, cursor |-> c, timeout |-> t] :
          st \in {Absent, Str("ok")}, c \in PollCursors, t \in PollTimeouts}

HealthSnapshotOutcomes ==
  { [kind |-> "network"], [kind |-> "http", status |-> 500],
    [kind |-> "json", body |-> Absent], [kind |-> "json", body |-> Str("ok")] }

(***************************************************************************)
(* HealthStatus                                                            *)
(***************************************************************************)
FALLBACK_POLL_INTERVAL_MS == 5000
ERROR_RETRY_MS == 2000
MAX_ERROR_RETRY_MS == 10000

Min(a, b) == IF a < b THEN a ELSE b

\* a plausible bug: a success leaves the retry delay as it is
ResetRetryKeeps(ms) == ms

\* recoveryRetryMs = ERROR_RETRY_MS
ResetRetry(ms) == ERROR_RETRY_MS

\* a plausible bug: the retry delay is tripled
BackOffTriple(ms) == Min(ms * 3, MAX_ERROR_RETRY_MS)

\* recoveryRetryMs = Math.min(recoveryRetryMs * 2, MAX_ERROR_RETRY_MS)
BackOff(ms) == Min(ms * 2, MAX_ERROR_RETRY_MS)

\* Math.round(ms / 1000) for a multiple of 1000
Seconds(ms) == ToString(ms \div 1000)

CurHealth ==
  [ isActive |-> isActive, cursor |-> healthCursor, transportMode |-> transportMode,
    recoveryRetryMs |-> recoveryRetryMs, viewState |-> viewState,
    healthPc |-> healthPc, healthSince |-> healthSince ]

\* publish: the view it sets (checkedAt, the wall clock, is left out) and the
\* publication as the step records it
publish(h, result, mode, note) ==
  IF ~h.isActive THEN [ h |-> h, pubs |-> <<>> ]
  ELSE [ h |-> [h EXCEPT !.viewState = Some([result |-> result, transportMode |-> mode,
                                             note |-> note])],
         pubs |-> << [result |-> result, transportMode |-> mode, note |-> note] >> ]

\* a plausible bug: after the unsupported signal the loop long-polls again
LoopHeadLongPollOnly(h) ==
  IF ~h.isActive
  THEN [ h |-> [h EXCEPT !.healthPc = "done", !.healthSince = None], reqs |-> <<>> ]
  ELSE [ h |-> [h EXCEPT !.healthPc = "long-poll", !.healthSince = h.cursor],
         reqs |-> << Req("health-long-poll", 0, h.cursor) >> ]

\* `while (isActive)` of runLoop up to its first await
LoopHead(h) ==
  IF ~h.isActive
  THEN [ h |-> [h EXCEPT !.healthPc = "done", !.healthSince = None], reqs |-> <<>> ]
  ELSE IF h.transportMode = "long-poll"
  THEN [ h |-> [h EXCEPT !.healthPc = "long-poll", !.healthSince = h.cursor],
         reqs |-> << Req("health-long-poll", 0, h.cursor) >> ]
  ELSE [ h |-> [h EXCEPT !.healthPc = "snapshot", !.healthSince = None],
         reqs |-> << Req("health-snapshot", 0, None) >> ]

HealthSet(h, step) ==
  /\ isActive' = h.isActive /\ healthCursor' = h.cursor /\ transportMode' = h.transportMode
  /\ recoveryRetryMs' = h.recoveryRetryMs /\ viewState' = h.viewState
  /\ healthPc' = h.healthPc /\ healthSince' = h.healthSince
  /\ last' = step
  /\ unit' = unit
  /\ UNCHANGED << pageVars, pureVars, busVars, clientVars >>

\* return from runLoop
HealthReturn(h) == [h EXCEPT !.healthPc = "done", !.healthSince = None]

\* the effect runs: runLoop starts
HealthMount ==
  /\ unit = "health"
  /\ healthPc = "none"
  /\ LET l == LoopHead([ CurHealth EXCEPT !.isActive = TRUE, !.cursor = None,
                                          !.transportMode = "long-poll",
                                          !.recoveryRetryMs = ERROR_RETRY_MS ])
     IN  HealthSet(l.h, Step("HealthMount", FALSE, <<>>, l.reqs, <<>>, NoInfo))

\* the cleanup of the effect: isActive = false, the controller is aborted
HealthUnmount ==
  /\ unit = "health"
  /\ isActive
  /\ HealthSet([CurHealth EXCEPT !.isActive = FALSE],
               Step("HealthUnmount", FALSE, <<>>, <<>>, <<>>, NoInfo))

\* the outcomes of a fetch: it can reject with AbortError once the cleanup has
\* aborted its controller
Settles(outcomes) == outcomes \cup (IF isActive THEN {} ELSE {Aborted})

\* `await fetchHealthStatusLongPoll(cursor, signal)` settles
HealthLongPollDone(outcome) ==
  /\ unit = "health"
  /\ healthPc = "long-poll"
  /\ LET h == CurHealth
         r == fetchHealthStatusLongPoll(healthSince, outcome)
     IN  IF r.thrown = Some("AbortError")
         THEN HealthSet(HealthReturn(h),
                        Step("HealthLongPollDone", ~isActive, <<>>, <<>>, <<>>, NoInfo))
         ELSE IF r.thrown = Some("UnsupportedLongPollingError")
         THEN LET l == LoopHead([h EXCEPT !.transportMode = "polling-fallback"])
              IN  HealthSet(l.h, Step("HealthLongPollDone", ~isActive, <<>>, l.reqs, <<>>,
                                      NoInfo))
         ELSE IF r.cycle.result.kind = "down"
         THEN LET p == publish(h, r.cycle.result, "long-poll",
                               "Long poll connection failed. Retrying in "
                                 \o Seconds(h.recoveryRetryMs) \o "s.")
              IN  HealthSet([p.h EXCEPT !.healthPc = "down-sleep", !.healthSince = None],
                            Step("HealthLongPollDone", ~isActive, p.pubs, <<>>, <<>>,
                                 [NoInfo EXCEPT !.sleep = Some(h.recoveryRetryMs)]))
         ELSE LET h1 == [ h EXCEPT !.recoveryRetryMs = ResetRetry(h.recoveryRetryMs),
                                   !.cursor = Coalesce(r.cycle.cursor, h.cursor) ]
                  p == publish(h1, r.cycle.result, "long-poll",
                               IF r.cycle.timedOut
                               THEN "Long poll timeout reached, reconnecting immediately."
                               ELSE "Long poll connected. Waiting on backend changes/timeouts.")
                  l == LoopHead(p.h)
              IN  HealthSet(l.h,
                            Step("HealthLongPollDone", ~isActive, p.pubs, l.reqs, <<>>,
                                 [ NoInfo EXCEPT
                                     !.cycle = Some([ timedOut |-> r.cycle.timedOut,
                                                      cursor |-> r.cycle.cursor ]) ]))

\* `await sleep(recoveryRetryMs)` after a down cycle is over
HealthDownWake ==
  /\ unit = "health"
  /\ healthPc = "down-sleep"
  /\ IF ~isActive
     THEN HealthSet(HealthReturn(CurHealth),
                    Step("HealthDownWake", TRUE, <<>>, <<>>, <<>>, NoInfo))
     ELSE HealthSet([CurHealth EXCEPT !.healthPc = "probe"],
                    Step("HealthDownWake", FALSE, <<>>,
                         << Req("health-snapshot", 0, None) >>, <<>>, NoInfo))

\* a plausible bug: the loop resubscribes with the cursor it had before the outage
ResubscribeCursorKeeps(c) == c

\* cursor = null: a fresh long-poll subscription after a recovery
ResubscribeCursor(c) == None

\* `await fetchHealthStatusSnapshot` of the recovery probe settles
HealthProbeDone(outcome) ==
  /\ unit = "health"
  /\ healthPc = "probe"
  /\ LET h == CurHealth
         r == fetchHealthStatusSnapshot(outcome)
     IN  IF IsSome(r.thrown)
         THEN HealthSet(HealthReturn(h),
                        Step("HealthProbeDone", ~isActive, <<>>, <<>>, <<>>, NoInfo))
         ELSE LET h1 == IF r.result.kind = "up"
                        THEN [h EXCEPT !.recoveryRetryMs = ResetRetry(h.recoveryRetryMs),
                                       !.cursor = ResubscribeCursor(h.cursor)]
                        ELSE [h EXCEPT !.recoveryRetryMs = BackOff(h.recoveryRetryMs)]
                  p == publish(h1, r.result, "long-poll",
                               IF r.result.kind = "up"
                               THEN "Server reachable again. Re-establishing long poll connection."
                               ELSE "Server still unreachable. Backing off to "
                                      \o Seconds(h1.recoveryRetryMs) \o "s retries.")
                  l == LoopHead(p.h)
              IN  HealthSet(l.h, Step("HealthProbeDone", ~isActive, p.pubs, l.reqs, <<>>,
                                      NoInfo))

\* `await fetchHealthStatusSnapshot` of the fallback branch settles
HealthSnapshotDone(outcome) ==
  /\ unit = "health"
  /\ healthPc = "snapshot"
  /\ LET h == CurHealth
         r == fetchHealthStatusSnapshot(outcome)
     IN  IF IsSome(r.thrown)
         THEN HealthSet(HealthReturn(h),
                        Step("HealthSnapshotDone", ~isActive, <<>>, <<>>, <<>>, NoInfo))
         ELSE LET p == publish([h EXCEPT !.recoveryRetryMs = ResetRetry(h.recoveryRetryMs)],
                               r.result,
                               "polling-fallback",
                               "Fallback polling every 5 seconds until backend long polling is available.")
              IN  HealthSet([p.h EXCEPT !.healthPc = "fallback-sleep"],
                            Step("HealthSnapshotDone", ~isActive, p.pubs, <<>>, <<>>,
                                 [NoInfo EXCEPT !.sleep = Some(FALLBACK_POLL_INTERVAL_MS)]))

\* `await sleep(FALLBACK_POLL_INTERVAL_MS)` is over
HealthFallbackWake ==
  /\ unit = "health"
  /\ healthPc = "fallback-sleep"
  /\ LET l == LoopHead(CurHealth)
     IN  HealthSet(l.h, Step("HealthFallbackWake", ~isActive, <<>>, l.reqs, <<>>, NoInfo))

(***************************************************************************)
(* The long-poll API functions, as functions of the cursor they are called *)
(* with and of what fetch gives: [thrown, cursor, timedOut] of the cycle   *)
(* they resolve with, or the error they reject with.                       *)
(***************************************************************************)
Thrown(err) == [ thrown |-> Some(err), cursor |-> None, timedOut |-> FALSE, result |-> None ]
Resolved(c, timedOut) ==
  [ thrown |-> None, cursor |-> c, timedOut |-> timedOut, result |-> None ]

\* fetchHealthStatusLongPoll
HealthLongPollMeta(sinceCursor, outcome) ==
  LET r == fetchHealthStatusLongPoll(sinceCursor, outcome)
  IN  IF IsSome(r.thrown) THEN Thrown(Val(r.thrown))
      ELSE [ Resolved(r.cycle.cursor, r.cycle.timedOut) EXCEPT
               !.result = Some(r.cycle.result) ]

\* getGameStateLongPoll, listPlayableGamesLongPoll, listPublicGamesLongPoll and
\* listPendingInvitationsLongPoll: `...parseLongPollMeta(data)`
GamesLongPollMeta(sinceCursor, outcome) ==
  IF outcome.kind = "json"
  THEN Resolved(parseLongPollMeta(outcome).cursor, parseLongPollMeta(outcome).timedOut)
  ELSE Thrown(ApiError(outcome))

\* fetchCurrentUserLongPoll
fetchCurrentUserLongPoll(sinceCursor, outcome) ==
  CASE outcome.kind = "http" /\ outcome.status = 401 -> Resolved(sinceCursor, FALSE)
    [] outcome.kind = "json" ->
         Resolved(ParseCursor(outcome.cursor), ParseTimedOut(outcome.timeout))
    [] OTHER -> Thrown(ApiError(outcome))

\* fetchSyncLongPoll
fetchSyncLongPoll(sinceCursor, outcome) ==
  IF outcome.kind = "json"
  THEN Resolved(ParseCursor(outcome.cursor), ParseTimedOut(outcome.timeout))
  ELSE Thrown(ApiError(outcome))

LongPollFunctions ==
  { "fetchHealthStatusLongPoll", "getGameStateLongPoll", "listPlayableGamesLongPoll",
    "listPublicGamesLongPoll", "listPendingInvitationsLongPoll",
    "fetchCurrentUserLongPoll", "fetchSyncLongPoll" }

LongPollMeta(fn, sinceCursor, outcome) ==
  CASE fn = "fetchHealthStatusLongPoll" -> HealthLongPollMeta(sinceCursor, outcome)
    [] fn = "fetchCurrentUserLongPoll" -> fetchCurrentUserLongPoll(sinceCursor, outcome)
    [] fn = "fetchSyncLongPoll" -> fetchSyncLongPoll(sinceCursor, outcome)
    [] OTHER -> GamesLongPollMeta(sinceCursor, outcome)

ApiOutcomes ==
  { Aborted, [kind |-> "network"] }
  \cup {[kind |-> "http", status |-> n] : n \in {401, 404, 405, 500, 501}}
  \cup {[kind |-> "json", v |-> 1, body |-> Absent, cursor |-> c, timeout |-> t] :
          c \in RawCursors, t \in RawTimeouts}

ApiCalls ==
  { [fn |-> fn, sinceCursor |-> c, outcome |-> o] :
      fn \in LongPollFunctions, c \in Cursors, o \in ApiOutcomes }

\* the call settles
LongPollCall ==
  /\ unit = "api"
  /\ IsSome(apiIn) /\ apiOut = None
  /\ apiOut' = Some(LongPollMeta(Val(apiIn).fn, Val(apiIn).sinceCursor, Val(apiIn).outcome))
  /\ last' = Step("LongPollCall", FALSE, <<>>, <<>>, <<>>, NoInfo)
  /\ UNCHANGED << unit, pageVars, healthVars, apiIn, keyIn, keyOut, busVars, clientVars >>

(***************************************************************************)
(* Fingerprints of pairs of snapshots                                      *)
(***************************************************************************)
Reverse(seq) == [i \in 1..Len(seq) |-> seq[Len(seq) + 1 - i]]

\* version 1 of game 1 once it is over: the same game with a status and a winner
EndedGame == Merge(ServerGame(1, 1), [status |-> "finished", winnerUserId |-> Some(1)])

\* the snapshots of the server data, with and without board, with the players in
\* either order or without players
KeySnapshots ==
  { [ game |-> gm, state |-> st, players |-> ps ] :
      gm \in {ServerGame(g, v) : g \in GameIds, v \in Versions} \cup {EndedGame},
      st \in {None} \cup {ServerState(1, w) : w \in Versions},
      ps \in {<<>>} \cup {ServerPlayers(1, w) : w \in Versions}
               \cup {Reverse(ServerPlayers(1, w)) : w \in Versions} }

\* buildStateSnapshotKey is applied to both snapshots
BuildKeys ==
  /\ unit = "key"
  /\ IsSome(keyIn) /\ keyOut = None
  /\ keyOut' = Some(<< KeyOf(Val(keyIn)[1]), KeyOf(Val(keyIn)[2]) >>)
  /\ last' = Step("BuildKeys", FALSE, <<>>, <<>>, <<>>, NoInfo)
  /\ UNCHANGED << unit, pageVars, healthVars, apiIn, apiOut, keyIn, busVars, clientVars >>

(***************************************************************************)
(* realtimeBus.  bus is window.__spaceGridRealtimeStatus, with the payload  *)
(* of fallbackState (idle) standing for the global that was never set; the *)
(* `at` of a payload, the wall clock, is left out.                         *)
(***************************************************************************)
BusPayloads == { PubIdle, PubWsConnecting, PubWsConnected, PubListening }

\* globalWindow.__spaceGridRealtimeStatus ?? fallbackState()
getRealtimeStatusState == bus

\* a plausible bug: a handler that was removed is still called
DispatchToAll(ls, h, payload) == [l \in Listeners |-> Append(h[l], payload)]

\* window.dispatchEvent: each handler on window is called once with the payload
Dispatch(ls, h, payload) ==
  [l \in Listeners |-> IF ls[l] = "on" THEN Append(h[l], payload) ELSE h[l]]

publishRealtimeStatus(payload) ==
  /\ unit = "bus"
  /\ Len(published) < MaxPubs
  /\ PageSet([Cur EXCEPT !.bus = payload],
             Step("publishRealtimeStatus", FALSE, << payload >>, <<>>, <<>>, NoInfo))
  /\ published' = Append(published, payload)
  /\ heard' = Dispatch(listeners, heard, payload)
  /\ UNCHANGED << listeners, healthVars, pureVars, clientVars >>

\* window.addEventListener(EVENT_NAME, handler)
subscribeRealtimeStatus(l) ==
  /\ unit = "bus"
  /\ listeners[l] = "new"
  /\ listeners' = [listeners EXCEPT ![l] = "on"]
  /\ PageSet(Cur, Step("subscribeRealtimeStatus", FALSE, <<>>, <<>>, <<>>, NoInfo))
  /\ UNCHANGED << published, heard, healthVars, pureVars, clientVars >>

\* the function subscribeRealtimeStatus returned: window.removeEventListener
unsubscribe(l) ==
  /\ unit = "bus"
  /\ listeners[l] = "on"
  /\ listeners' = [listeners EXCEPT ![l] = "off"]
  /\ PageSet(Cur, Step("unsubscribe", FALSE, <<>>, <<>>, <<>>, NoInfo))
  /\ UNCHANGED << published, heard, healthVars, pureVars, clientVars >>

(***************************************************************************)
(* One PhoenixGameSocket on the topic game:1, driven through its public    *)
(* methods and the events of the sockets it created.  A socket is          *)
(* [st, canErr, join]: its readyState, whether an error event can still    *)
(* fire on it, and the ref of the join sent on it.  The handlers of every  *)
(* socket stay attached and act on the fields of the instance.             *)
(***************************************************************************)
\* the instance as push and ws.onmessage see it: the readyState of this.ws
AsClient(p, socks) ==
  [ sock |-> IF IsSome(p.ws) THEN socks[Val(p.ws)].st ELSE "none",
    ref |-> p.ref, joinRef |-> p.joinRef ]

\* WebSocket.close(): a socket that was connecting fails, and its error event
\* precedes its close event
WsClose(s) ==
  CASE s.st = "connecting" -> [s EXCEPT !.st = "closing"]
    [] s.st = "open" -> [s EXCEPT !.st = "closing", !.canErr = FALSE]
    [] OTHER -> s

\* disconnect
disconnect(p, socks) ==
  IF p.ws = None THEN [ phx |-> p, sockets |-> socks ]
  ELSE [ phx |-> [p EXCEPT !.ws = None],
         sockets |-> [socks EXCEPT ![Val(p.ws)] = WsClose(@)] ]

StatusCall(status) == [fn |-> "onStatusChange", arg |-> status]
EventCall(event) == [fn |-> "onEvent", arg |-> event]

\* the frames a server sends on a socket of the client
PhxFrames ==
  { [w |-> "garbage"],
    Wire("array", Absent, Str("1"), Str("game:0"), Str("phx_reply"), Reply("ok")),
    Wire("array", Str("1"), Absent, Str(Topic(1)), Str("error"), Empty),
    Wire("array", Str("1"), Absent, Str(Topic(1)), Str("state_snapshot"),
         [kind |-> "full", v |-> 1]) }
  \cup { Wire("array", Str(r), Str(r), Str(Topic(1)), Str("phx_reply"), Reply(st)) :
           r \in {"1", "2", "3"}, st \in {"ok", "error"} }

ClientStep(p, socks, status, op, pubs, out, info) ==
  /\ phx' = p /\ sockets' = socks
  /\ reported' = IF IsSome(status) THEN Val(status) ELSE reported
  /\ PageSet([Cur EXCEPT !.bus = BusAfter(pubs)], Step(op, FALSE, pubs, <<>>, out, info))
  /\ UNCHANGED << healthVars, pureVars, busVars >>

\* connect()
ClientConnect ==
  /\ unit = "client"
  /\ Len(sockets) < MaxSockets
  /\ LET d == disconnect(phx, sockets)
     IN  ClientStep([d.phx EXCEPT !.ws = Some(Len(sockets) + 1)],
                    Append(d.sockets, [st |-> "connecting", canErr |-> TRUE, join |-> None]),
                    Some("connecting"), "ClientConnect", << PubWsConnecting >>, <<>>,
                    [NoInfo EXCEPT !.cb = << StatusCall("connecting") >>])

\* disconnect()
ClientDisconnect ==
  /\ unit = "client"
  /\ LET d == disconnect(phx, sockets)
     IN  ClientStep(d.phx, d.sockets, None, "ClientDisconnect", <<>>, <<>>, NoInfo)

\* sendMove(x, y, buyCell)
ClientSendMove ==
  /\ unit = "client"
  /\ phx.ref < MaxRef
  /\ LET p == push(AsClient(phx, sockets), Topic(1), "move", [kind |-> "move"])
     IN  ClientStep([phx EXCEPT !.ref = p.client.ref], sockets, None, "ClientSendMove",
                    <<>>, p.out, [NoInfo EXCEPT !.ret = Some(IsSome(p.ref))])

\* requestState()
ClientRequestState ==
  /\ unit = "client"
  /\ phx.ref < MaxRef
  /\ LET p == push(AsClient(phx, sockets), Topic(1), "request_state", Empty)
     IN  ClientStep([phx EXCEPT !.ref = p.client.ref], sockets, None, "ClientRequestState",
                    <<>>, p.out, [NoInfo EXCEPT !.ret = Some(IsSome(p.ref))])

\* ws.onopen of socket i
ClientOpen(i) ==
  /\ unit = "client"
  /\ sockets[i].st = "connecting"
  /\ phx.ref < MaxRef
  /\ LET socks == [sockets EXCEPT ![i].st = "open"]
         p == push(AsClient(phx, socks), Topic(1), "phx_join", Empty)
     IN  ClientStep([phx EXCEPT !.ref = p.client.ref, !.joinRef = p.ref],
                    IF p.out # <<>> THEN [socks EXCEPT ![Val(phx.ws)].join = p.ref]
                    ELSE socks,
                    None, "ClientOpen", <<>>, p.out, [NoInfo EXCEPT !.sock = Some(i)])

\* ws.onmessage of socket i
ClientMessage(i, data) ==
  /\ unit = "client"
  /\ sockets[i].st = "open"
  /\ LET res == ClientOnMessage(AsClient(phx, sockets), Topic(1), data)
     IN  /\ res.client.ref <= MaxRef
         /\ ClientStep([phx EXCEPT !.ref = res.client.ref], sockets, res.status,
                       "ClientMessage", res.pubs, res.out,
                       [ NoInfo EXCEPT
                           !.sock = Some(i),
                           !.cb = (IF IsSome(res.status)
                                   THEN << StatusCall(Val(res.status)) >> ELSE <<>>)
                                  \o [k \in 1..Len(res.events) |->
                                        EventCall(res.events[k].event)] ])

\* ws.onerror of socket i
ClientError(i) ==
  /\ unit = "client"
  /\ sockets[i].st # "closed" /\ sockets[i].canErr
  /\ ClientStep(phx, [sockets EXCEPT ![i].st = "closing", ![i].canErr = FALSE], None,
                "ClientError", << PubWsError >>, <<>>,
                [NoInfo EXCEPT !.sock = Some(i), !.cb = << EventCall("error") >>])

\* ws.onclose of socket i
ClientClose(i) ==
  /\ unit = "client"
  /\ sockets[i].st # "closed"
  /\ ClientStep(phx, [sockets EXCEPT ![i].st = "closed", ![i].canErr = FALSE],
                Some("disconnected"), "ClientClose", << PubWsDisconnected >>, <<>>,
                [NoInfo EXCEPT !.sock = Some(i), !.cb = << StatusCall("disconnected") >>])

(***************************************************************************)
(* Specification                                                           *)
(***************************************************************************)
Units == {"game", "health", "api", "key", "bus", "client"}

vars == << unit, pageVars, healthVars, pureVars, busVars, clientVars, last >>

Init ==
  /\ unit \in Units
  /\ mounted = FALSE /\ gameId = 1 /\ details = None /\ live = None
  /\ loading = FALSE /\ loadingState = FALSE /\ error = None /\ moveError = None
  /\ moveBusy = FALSE /\ wsConnected = FALSE /\ wsTransportState = "idle"
  /\ lastSnapshotKey = None /\ gameStateCursor = None /\ client = None
  /\ detailsPc = "none" /\ tokenPc = "none" /\ pollPc = "none" /\ pollSince = None
  /\ firstResponsePending = FALSE /\ movePc = None
  /\ stale = {} /\ bus = PubIdle /\ switches = 0
  /\ isActive = FALSE /\ healthCursor = None /\ transportMode = "long-poll"
  /\ recoveryRetryMs = ERROR_RETRY_MS /\ viewState = None
  /\ healthPc = "none" /\ healthSince = None
  /\ apiIn \in (IF unit = "api" THEN {Some(c) : c \in ApiCalls} ELSE {None})
  /\ apiOut = None
  /\ keyIn \in (IF unit = "key" THEN {Some(p) : p \in KeySnapshots \X KeySnapshots}
                ELSE {None})
  /\ keyOut = None
  /\ published = <<>> /\ listeners = [l \in Listeners |-> "new"]
  /\ heard = [l \in Listeners |-> <<>>]
  /\ phx = [ws |-> None, ref |-> 0, joinRef |-> None]
  /\ sockets = <<>> /\ reported = "none"
  /\ last = Step("Init", FALSE, <<>>, <<>>, <<>>, NoInfo)

\* The page whose token fetch fails: the long-poll transport, with teardown.
PollNext ==
  \/ Mount(1)
  \/ Unmount
  \/ \E g \in GameIds : SwitchGame(g)
  \/ TokenReject
  \/ \E o \in PollOutcomes : PollDone(o)
  \/ PollWake
  \/ \E x \in stale, o \in PollOutcomes \cup {Aborted} : StalePoll(x, o)
  \/ \E x \in stale : StaleWake(x)

\* The page on one game: the push channel, up to the start of its fallback.
PushNext ==
  \/ Mount(1)
  \/ \E o \in DetailsOutcomes : DetailsDone(o)
  \/ TokenResolve
  \/ SocketOpen
  \/ \E d \in WireFrames(gameId) : SocketMessage(d)
  \/ SocketError
  \/ SocketClose
  \/ HandleMoveWs

\* The page on one game: the updates of both transports.
ReconcileNext ==
  \/ Mount(1)
  \/ \E o \in DetailsOutcomes : DetailsDone(o)
  \/ TokenResolve
  \/ SocketOpen
  \/ \E d \in JoinReplies(gameId) \cup SnapshotFrames(gameId) : SocketMessage(d)
  \/ \E o \in SnapshotOutcomes : PollDone(o)

\* Teardown of the push channel: unmount and route change.
TeardownNext ==
  \/ \E g \in GameIds : Mount(g)
  \/ Unmount
  \/ \E g \in GameIds : SwitchGame(g)
  \/ TokenResolve
  \/ TokenReject
  \/ SocketOpen
  \/ \E d \in JoinReplies(gameId) : SocketMessage(d)
  \/ SocketError
  \/ SocketClose
  \/ \E x \in stale, o \in TokenOutcomes(TRUE) : StaleToken(x, o)
  \/ \E x \in stale : StaleSocketError(x)
  \/ \E x \in stale : StaleSocketClose(x)

\* The health subscription.
HealthNext ==
  \/ HealthMount
  \/ HealthUnmount
  \/ \E o \in Settles(HealthPollOutcomes) : HealthLongPollDone(o)
  \/ HealthDownWake
  \/ \E o \in Settles(HealthSnapshotOutcomes) : HealthProbeDone(o)
  \/ \E o \in Settles(HealthSnapshotOutcomes) : HealthSnapshotDone(o)
  \/ HealthFallbackWake

InitApi == Init /\ unit = "api"
SpecApi == InitApi /\ [][LongPollCall]_vars
InitKey == Init /\ unit = "key"
SpecKey == InitKey /\ [][BuildKeys]_vars

InitGame == Init /\ unit = "game"
InitHealth == Init /\ unit = "health"
SpecHealth == InitHealth /\ [][HealthNext]_vars
SpecPoll == InitGame /\ [][PollNext]_vars
SpecPush == InitGame /\ [][PushNext]_vars
SpecReconcile == InitGame /\ [][ReconcileNext]_vars
SpecTeardown == InitGame /\ [][TeardownNext]_vars

\* The poll loops of both subscriptions.
LoopsNext == PollNext \/ HealthNext
InitLoops == Init /\ unit \in {"game", "health"}
SpecLoops == InitLoops /\ [][LoopsNext]_vars

\* the frames of a server that never answers the join
SilentFrames(g) ==
  { d \in WireFrames(g) :
      ~(d.w \in {"array", "object"} /\ d.topic = Str(Topic(g))
        /\ d.event = Str("phx_reply") /\ d.ref = Str("1")) }

\* The page whose socket opens and stays open, and whose join is never
\* answered.  The awaits of the page settle and the socket opens: whatever the
\* page itself has pending does happen.
JoinSilentNext ==
  \/ \E g \in GameIds : Mount(g)
  \/ \E o \in DetailsOutcomes : DetailsDone(o)
  \/ TokenResolve
  \/ SocketOpen
  \/ \E d \in SilentFrames(gameId) : SocketMessage(d)

SpecJoinSilent ==
  /\ InitGame /\ [][JoinSilentNext]_vars
  /\ WF_vars(TokenResolve) /\ WF_vars(SocketOpen)
  /\ WF_vars(\E o \in DetailsOutcomes : DetailsDone(o))

\* the close event that follows the error event of a failed socket
CloseAfterError ==
  /\ IsSome(client) /\ Val(client).sock = "closing"
  /\ SocketClose

\* The page on one game, where a socket that failed does close.
SpecPushClose == InitGame /\ [][PushNext]_vars /\ WF_vars(CloseAfterError)

\* The page that polls and moves over HTTP.
MoveHttpNext ==
  \/ Mount(1)
  \/ \E o \in DetailsOutcomes : DetailsDone(o)
  \/ TokenReject
  \/ \E o \in SnapshotOutcomes : PollDone(o)
  \/ HandleMoveHttp
  \/ \E o \in DetailsOutcomes : MoveDone(o)

SpecMoveHttp == InitGame /\ [][MoveHttpNext]_vars

\* the answers of the game-state endpoint that carry a snapshot
FreshOutcomes == { o \in SnapshotOutcomes : o.timeout = Bool(FALSE) }

\* The page that moves over the push channel and loses it.
MoveLostNext ==
  \/ Mount(1)
  \/ \E o \in DetailsOutcomes : DetailsDone(o)
  \/ TokenResolve
  \/ SocketOpen
  \/ \E d \in JoinReplies(gameId) \cup SnapshotFrames(gameId) : SocketMessage(d)
  \/ HandleMoveWs
  \/ SocketError
  \/ SocketClose
  \/ \E o \in SnapshotOutcomes : PollDone(o)

\* a long poll of the live loop is answered with a snapshot
PollAnswered == \E o \in FreshOutcomes : PollDone(o)

\* weak fairness of PollAnswered, which is enabled exactly while a long poll of
\* the live loop is in flight
PollsAreAnswered == []<>(pollPc # "inflight") \/ []<><<PollAnswered>>_vars

\* A socket that failed does close, and the long polls of the fallback are
\* answered with snapshots.
SpecMoveLost ==
  /\ InitGame /\ [][MoveLostNext]_vars
  /\ WF_vars(CloseAfterError)
  /\ PollsAreAnswered

\* The status bus and its listeners.
BusNext ==
  \/ \E p \in BusPayloads : publishRealtimeStatus(p)
  \/ \E l \in Listeners : subscribeRealtimeStatus(l)
  \/ \E l \in Listeners : unsubscribe(l)

InitBus == Init /\ unit = "bus"
SpecBus == InitBus /\ [][BusNext]_vars

\* One push client, its callers and its sockets.
ClientNext ==
  \/ ClientConnect
  \/ ClientDisconnect
  \/ ClientSendMove
  \/ ClientRequestState
  \/ \E i \in DOMAIN sockets : ClientOpen(i)
  \/ \E i \in DOMAIN sockets, d \in PhxFrames : ClientMessage(i, d)
  \/ \E i \in DOMAIN sockets : ClientError(i)
  \/ \E i \in DOMAIN sockets : ClientClose(i)

InitClient == Init /\ unit = "client"
SpecClient == InitClient /\ [][ClientNext]_vars

Range(seq) == {seq[i] : i \in DOMAIN seq}

(***************************************************************************)
(* Properties                                                              *)
(***************************************************************************)
\* C1: an update (a push state_snapshot or state_updated event, or a poll cycle
\* that did not time out) whose fingerprint is the stored one leaves the
\* displayed game, state and players and the stored fingerprint unchanged; an
\* update with another fingerprint replaces them and stores its fingerprint.
\* So of updates with one fingerprint the first replaces and the later ones
\* change nothing, whichever transport delivers them.
C1_Idempotent ==
  [][ (IsSome(last'.upd) /\ ~last'.stale) =>
        IF Some(Val(last'.upd).key) = lastSnapshotKey
        THEN UNCHANGED << live, details, lastSnapshotKey >>
        ELSE /\ lastSnapshotKey' = Some(Val(last'.upd).key)
             /\ IsSome(live') /\ KeyOf(Val(live')) = Val(last'.upd).key ]_vars

\* a poll cycle delivers a snapshot whose fingerprint is already stored, on a page
\* whose push channel had delivered or could deliver it
C1_Witness ==
  /\ last.op = "PollDone" /\ IsSome(last.upd)
  /\ Val(last.upd).prev = Some(Val(last.upd).key)
  /\ IsSome(client) /\ Val(client).sock = "open"

\* C2 (as written): a long-poll call that resolves with timedOut = true returns
\* the cursor it was called with.
C2_TimedOutKeepsInputCursor ==
  (IsSome(apiOut) /\ Val(apiOut).thrown = None /\ Val(apiOut).timedOut)
    => Val(apiOut).cursor = Val(apiIn).sinceCursor

\* C2 (amended): a long-poll call that resolves with timedOut = true returns the
\* cursor field of the response when that is a non-blank string, and null
\* otherwise, whatever cursor it was called with.
C2_TimedOutReturnsResponseCursor ==
  (IsSome(apiOut) /\ Val(apiOut).thrown = None /\ Val(apiOut).timedOut)
    => /\ Val(apiIn).outcome.kind = "json"
       /\ Val(apiIn).outcome.timeout = Bool(TRUE)
       /\ Val(apiOut).cursor =
            IF Val(apiIn).outcome.cursor.t = "str"
               /\ Val(apiIn).outcome.cursor.s \notin {"", " "}
            THEN Some(Val(apiIn).outcome.cursor.s) ELSE None

\* the game-state call made with cursor "c1" resolves with timedOut = true and
\* the cursor "c2" of the response
C2_Witness ==
  /\ IsSome(apiOut) /\ Val(apiOut).timedOut
  /\ Val(apiIn).fn = "getGameStateLongPoll"
  /\ Val(apiIn).sinceCursor = Some("c1")
  /\ Val(apiOut).cursor = Some("c2")

\* C3: when a poll cycle of a live loop (game board or health) resolves with
\* timedOut = true and a cursor c', the same step issues the next long-poll
\* request with since = c': the loop starts no delay in between.
C3_TimedOutRepollsAtOnce ==
  (/\ last.op \in {"PollDone", "HealthLongPollDone"} /\ ~last.stale
   /\ IsSome(last.cycle) /\ Val(last.cycle).timedOut /\ IsSome(Val(last.cycle).cursor))
    => /\ last.sleep = None
       /\ last.op = "PollDone" =>
            /\ last.reqs = << Req("long-poll", gameId, Val(last.cycle).cursor) >>
            /\ pollPc = "inflight" /\ pollSince = Val(last.cycle).cursor
       /\ last.op = "HealthLongPollDone" =>
            /\ last.reqs = << Req("health-long-poll", 0, Val(last.cycle).cursor) >>
            /\ healthPc = "long-poll" /\ healthSince = Val(last.cycle).cursor

\* the game poll loop, polling with another cursor or none, receives a timed-out
\* cycle with the cursor "c2" and is polling again with it
C3_Witness ==
  /\ last.op = "PollDone" /\ IsSome(last.cycle) /\ Val(last.cycle).timedOut
  /\ Val(last.cycle).cursor = Some("c2")
  /\ pollPc = "inflight" /\ pollSince = Some("c2")

\* the socket is open and the join is sent and not answered
JoinPending ==
  /\ IsSome(client) /\ Val(client).sock = "open" /\ IsSome(Val(client).joinRef)
  /\ wsTransportState = "connecting"

\* C4: when the socket is open, the join is sent and no reply to it ever comes
\* (and the socket neither fails nor closes), the subscription comes to publish
\* polling-fallback and to have a long-poll request for its game in flight.
C4_SilentJoinFallsBack ==
  JoinPending ~> (bus.state = "polling-fallback" /\ pollPc = "inflight")

\* the frame is a reply on the topic of the page whose ref is the pending join
\* ref and whose status is not ok
FailedJoinReply(d) ==
  /\ IsSome(client)
  /\ d.w \in {"array", "object"}
  /\ d.topic = Str(Topic(gameId)) /\ d.event = Str("phx_reply")
  /\ d.ref.t = "str" /\ Some(d.ref.s) = Val(client).joinRef
  /\ d.payload.kind = "reply" /\ d.payload.status # "ok"

\* C5: when the push client receives a reply on its topic whose ref is the
\* pending join ref and whose status is not ok, the status on the bus is
\* polling-fallback with a non-empty message and a long-poll request for the
\* game is in flight, issued by that same step unless the loop was running, with
\* no delay started.
C5_JoinFailureStartsPoll ==
  [][ \A d \in WireFrames(gameId) :
        (FailedJoinReply(d) /\ SocketMessage(d)) =>
          /\ bus'.state = "polling-fallback"
          /\ IsSome(bus'.message) /\ Val(bus'.message) # ""
          /\ pollPc' = "inflight" /\ last'.sleep = None
          /\ wsTransportState # "disconnected" =>
               Req("long-poll", gameId, gameStateCursor) \in Range(last'.reqs) ]_vars

\* the join of a connecting page was refused: the failure is published and the
\* first long-poll request is issued by the step that received the reply
C5_Witness ==
  /\ last.op = "SocketMessage" /\ PubJoinFailed \in Range(last.pubs)
  /\ \E r \in Range(last.reqs) : r.kind = "long-poll"
  /\ pollPc = "inflight" /\ bus.state = "polling-fallback"

\* what the game page displays
Display == << details, live, loading, loadingState, error, moveError, moveBusy >>

\* C6: when a long-poll request (or a delay) of a subscription that was torn
\* down settles, whatever it settles with, the step changes nothing the
\* subscription displays, sets no error, publishes nothing and issues no request.
C6_TornDownPollIsSilent ==
  [][ (last'.stale /\ last'.op \in {"StalePoll", "StaleWake", "HealthLongPollDone",
                                   "HealthDownWake", "HealthProbeDone",
                                   "HealthSnapshotDone", "HealthFallbackWake"}) =>
        /\ UNCHANGED << Display, lastSnapshotKey, bus, viewState >>
        /\ last'.pubs = <<>> /\ last'.reqs = <<>> ]_vars

\* the long-poll request of the game the page has left settles while the page
\* polls the game it switched to
C6_Witness ==
  /\ last.op = "StalePoll" /\ last.stale
  /\ mounted /\ pollPc = "inflight" /\ IsSome(live)

\* C7: a step of a game subscription that was torn down publishes no realtime
\* status.
C7_NoStatusAfterTeardown == last.stale => last.pubs = <<>>

\* C8: while the page is mounted, a step of a subscription that was torn down (an
\* event of its socket, the result of its token or poll request) changes neither
\* what the page displays nor its transport state, and starts no poll loop.
C8_StaleCallbacksAreInert ==
  [][ (mounted /\ last'.stale) =>
        /\ UNCHANGED << Display, wsConnected, wsTransportState, pollPc >>
        /\ last'.reqs = <<>> ]_vars

\* C9: once the health loop has received the unsupported signal its transport
\* mode stays polling-fallback; it publishes that mode only, issues no long-poll
\* request, and issues a snapshot request only when a delay of 5 seconds, started
\* when the previous snapshot request settled, is over.
C9_FallbackIsPermanent ==
  [][ transportMode = "polling-fallback" =>
        /\ transportMode' = "polling-fallback"
        /\ healthPc' # "long-poll"
        /\ \A r \in Range(last'.reqs) : r.kind = "health-snapshot"
        /\ \A p \in Range(last'.pubs) : p.transportMode = "polling-fallback"
        /\ last'.reqs # <<>> => healthPc = "fallback-sleep"
        /\ (healthPc = "snapshot" /\ healthPc' # "snapshot") =>
             \/ healthPc' = "fallback-sleep" /\ last'.sleep = Some(5000)
             \/ healthPc' = "done" /\ ~isActive ]_vars

\* after the unsupported signal and one snapshot, the 5 seconds are over and the
\* live loop has issued its next snapshot request
C9_Witness ==
  /\ transportMode = "polling-fallback" /\ isActive
  /\ last.op = "HealthFallbackWake" /\ healthPc = "snapshot"
  /\ IsSome(viewState) /\ Val(viewState).transportMode = "polling-fallback"

\* b holds the players of a in some order
SamePlayers(a, b) ==
  /\ Len(a) = Len(b)
  /\ \A p \in Range(a) :
       Cardinality({i \in DOMAIN a : a[i] = p}) = Cardinality({i \in DOMAIN b : b[i] = p})

\* C10: two snapshots with the same game fields and board whose player lists
\* hold the same players in any order have equal fingerprints.
C10_PlayerOrderIsIrrelevant ==
  IsSome(keyOut) =>
    LET a == Val(keyIn)[1]
        b == Val(keyIn)[2]
    IN  (a.game = b.game /\ a.state = b.state /\ SamePlayers(a.players, b.players))
          => Val(keyOut)[1] = Val(keyOut)[2]

\* C11: a long-poll request of the game page is issued only by a step of the live
\* subscription in which its push channel reports disconnected or its connection
\* attempt fails (the token is refused, the join is refused, the socket closes), or
\* by the poll loop that such a step started (the next cycle, the retry after a
\* delay).
C11_PushIsTriedFirst ==
  [][ (\E r \in Range(last'.reqs) : r.kind = "long-poll") =>
        /\ ~last'.stale
        /\ last'.op \in {"TokenReject", "SocketMessage", "SocketClose",
                         "PollDone", "PollWake"} ]_vars

\* the socket of the live subscription was opened once and has closed
PushAttemptOver ==
  /\ mounted /\ IsSome(client) /\ Val(client).sock = "closed"
  /\ wsTransportState = "disconnected"

\* C13: the only step that opens a socket is the one in which the token of the
\* live subscription arrives, and it finds no client; a client that has left the
\* connecting state never connects again while the subscription lasts.
C13_ConnectsAtMostOnce ==
  [][ /\ (\E r \in Range(last'.reqs) : r.kind = "socket") =>
           /\ last'.op = "TokenResolve" /\ ~last'.stale
           /\ client = None /\ tokenPc = "inflight"
      /\ (IsSome(client) /\ IsSome(client') /\ switches' = switches /\ mounted') =>
           (Val(client').sock = "connecting" => Val(client).sock = "connecting") ]_vars

\* the push channel of a mounted page has closed and the page polls; no token
\* request is pending
C13_Witness ==
  /\ PushAttemptOver /\ pollPc = "inflight" /\ tokenPc = "none"
  /\ last.op = "SocketClose"

\* C14: once a game-state long poll of a mounted page was refused with HTTP 401
\* (the page shows "Authentication required"), its poll loop is over: no request
\* is in flight and no retry delay is running.
C14_UnauthenticatedStopsPolling ==
  (mounted /\ error = Some("Authentication required")) => pollPc = "none"

\* C17: when a game-state long poll that was issued after a retry delay fails in
\* its turn, the delay the loop starts is longer than the floor, the delay after
\* a first failure.
C17_GameRetryBacksOff ==
  [][ (/\ last.op = "PollWake" /\ ~last.stale /\ pollPc = "inflight"
       /\ last'.op = "PollDone" /\ IsSome(last'.sleep))
        => Val(last'.sleep) > PollRetryMs ]_vars

\* the page is told that the push channel is lost and its poll loop runs for
\* its game
PollingInstead ==
  /\ ~wsConnected /\ wsTransportState = "disconnected" /\ pollPc = "inflight"

\* C12: a refused join and a socket close each leave the page disconnected with
\* a long poll for its game in flight, issued by that step unless the loop was
\* running already; a socket error is followed by the close of the socket, which
\* does the same.
C12_LostChannelStartsPoll ==
  /\ [][ ((last'.op = "SocketMessage" /\ PubJoinFailed \in Range(last'.pubs))
          \/ last'.op = "SocketClose") =>
           /\ PollingInstead'
           /\ pollPc # "inflight" =>
                Req("long-poll", gameId, gameStateCursor) \in Range(last'.reqs) ]_vars
  /\ (last.op = "SocketError") ~> PollingInstead

\* the socket of a joined page failed and closed: the page polls
C12_Witness ==
  /\ last.op = "SocketClose" /\ PollingInstead
  /\ moveError = Some("WebSocket error")
  /\ \E r \in Range(last.reqs) : r.kind = "long-poll" /\ r.g = gameId

\* the recovery probe of the health loop settles with o and finds the server as
\* kind says
ProbeGives(o, kind) ==
  /\ healthPc = "probe"
  /\ fetchHealthStatusSnapshot(o).thrown = None
  /\ fetchHealthStatusSnapshot(o).result.kind = kind
  /\ HealthProbeDone(o)

\* a long poll of the health loop fails: the loop starts its retry delay
LongPollFails == last'.op = "HealthLongPollDone" /\ IsSome(last'.sleep)

\* C15: the retry delay of the health loop is between 2000 and 10000 ms in every
\* state.  A failed long poll is followed by a wait of the current delay, which
\* it leaves alone; the failed probe after that wait doubles the delay, capped at
\* 10000 ms.  No step changes the delay in another way than doubling it or
\* resetting it to 2000 ms, so failures in a row wait 2000, 4000, 8000, 10000,
\* 10000, ... ms.
C15_RetryDelayDoublesCapped ==
  /\ [](recoveryRetryMs \in ERROR_RETRY_MS..MAX_ERROR_RETRY_MS)
  /\ [][ /\ recoveryRetryMs' \in { recoveryRetryMs, ERROR_RETRY_MS,
                                   Min(2 * recoveryRetryMs, MAX_ERROR_RETRY_MS) }
         /\ LongPollFails =>
              /\ last'.sleep = Some(recoveryRetryMs)
              /\ recoveryRetryMs' = recoveryRetryMs
         /\ \A o \in HealthSnapshotOutcomes :
              ProbeGives(o, "down") =>
                recoveryRetryMs' = Min(2 * recoveryRetryMs, MAX_ERROR_RETRY_MS) ]_vars

\* the delay has reached the maximum and a further failed long poll waits 10000 ms
C15_Witness ==
  /\ last.op = "HealthLongPollDone" /\ last.sleep = Some(MAX_ERROR_RETRY_MS)
  /\ recoveryRetryMs = MAX_ERROR_RETRY_MS /\ isActive

\* C16: a long-poll cycle with an up result and a probe with an up result leave
\* the retry delay at 2000 ms, and a long poll that fails while the delay is
\* 2000 ms is followed by a wait of 2000 ms.
C16_SuccessResetsRetryDelay ==
  [][ /\ (last'.op = "HealthLongPollDone" /\ IsSome(last'.cycle)) =>
           recoveryRetryMs' = ERROR_RETRY_MS
      /\ \A o \in HealthSnapshotOutcomes :
           ProbeGives(o, "up") => recoveryRetryMs' = ERROR_RETRY_MS
      /\ (LongPollFails /\ recoveryRetryMs = ERROR_RETRY_MS) =>
           last'.sleep = Some(ERROR_RETRY_MS) ]_vars

\* after a failed long poll and its wait the probe found the server up: the
\* delay is 2000 ms and the loop long-polls again
C16_Witness ==
  /\ last.op = "HealthProbeDone" /\ isActive /\ IsSome(viewState)
  /\ Val(viewState).result.kind = "up"
  /\ Val(viewState).note = "Server reachable again. Re-establishing long poll connection."
  /\ recoveryRetryMs = ERROR_RETRY_MS /\ healthPc = "long-poll"

\* the frame is a reply on the topic of the page whose ref is the pending join
\* ref and whose status is ok
OkJoinReply(d) ==
  /\ IsSome(client) /\ IsSome(Val(client).joinRef)
  /\ d.w \in {"array", "object"}
  /\ d.topic = Str(Topic(gameId)) /\ d.event = Str("phx_reply")
  /\ d.ref.t = "str" /\ Some(d.ref.s) = Val(client).joinRef
  /\ d.payload.kind = "reply" /\ d.payload.status = "ok"

\* a step tells the page connected, or publishes ws-connected
ReportsConnected ==
  \/ wsConnected' /\ ~wsConnected
  \/ wsTransportState' = "connected" /\ wsTransportState # "connected"
  \/ PubWsConnected \in Range(last'.pubs)

\* C18: the page is told connected, and ws-connected is published, only by a step
\* in which the open socket of the live client receives a reply on its topic
\* whose ref is the ref of the join sent on that socket and whose status is ok;
\* the receipt of any other frame reports nothing of the kind.
C18_JoinedOnlyByJoinReply ==
  [][ ReportsConnected =>
        /\ \E d \in WireFrames(gameId) : OkJoinReply(d) /\ SocketMessage(d)
        /\ \A d \in WireFrames(gameId) : ~OkJoinReply(d) => ~SocketMessage(d) ]_vars

\* the join was answered with ok: the page is connected
C18_Witness ==
  /\ last.op = "SocketMessage" /\ wsConnected /\ wsTransportState = "connected"
  /\ PubWsConnected \in Range(last.pubs) /\ bus = PubWsConnected

\* the number a ref is the decimal form of
RefNum(s) == CHOOSE n \in 0..(MaxRef + 2) : ToString(n) = s

\* C19: the step in which the client receives the ok reply to its join sends one
\* frame and no other: a request_state on its topic whose joinRef is the ref of the
\* join and whose own ref is greater than that ref; and a client that has sent its
\* join and is not yet reported connected sends nothing in any other step.
C19_JoinRequestsState ==
  [][ /\ \A d \in WireFrames(gameId) :
           (OkJoinReply(d) /\ SocketMessage(d)) =>
             /\ Len(last'.out) = 1
             /\ last'.out[1].event = "request_state"
             /\ last'.out[1].topic = Topic(gameId)
             /\ last'.out[1].joinRef = Val(client).joinRef
             /\ IsSome(last'.out[1].ref)
             /\ RefNum(Val(last'.out[1].ref)) > RefNum(Val(Val(client).joinRef))
      /\ (last'.out # <<>> /\ IsSome(client) /\ IsSome(Val(client).joinRef) /\ ~wsConnected) =>
           \E d \in WireFrames(gameId) : OkJoinReply(d) /\ SocketMessage(d) ]_vars

\* the join (ref "1") was answered with ok and request_state went out with ref "2"
C19_Witness ==
  /\ last.op = "SocketMessage" /\ wsConnected
  /\ last.out = << Frame(Some("1"), Some("2"), Topic(gameId), "request_state", Empty) >>

\* the frame is unparsable, has the wrong shape, or names another topic
DroppedFrame(d) ==
  \/ d.w \in {"garbage", "shape"}
  \/ d.topic.t # "str" \/ d.event.t # "str"
  \/ d.topic.s # Topic(gameId)

\* C20: a frame that is unparsable, has the wrong shape or names another topic
\* leaves the page and the client as they are: no callback runs, nothing is
\* published, nothing is sent, the socket stays as it is.
C20_BadFramesAreDropped ==
  [][ \A d \in WireFrames(gameId) :
        (DroppedFrame(d) /\ SocketMessage(d)) =>
          /\ UNCHANGED pageVars
          /\ last'.pubs = <<>> /\ last'.out = <<>> /\ last'.reqs = <<>> ]_vars

\* a bad frame arrived on the socket of a joined page, which is still joined
C20_Witness ==
  /\ last.op = "SocketMessage" /\ last.pubs = <<>> /\ last.out = <<>>
  /\ last.upd = None
  /\ wsConnected /\ IsSome(client) /\ Val(client).sock = "open" /\ moveError = None
  /\ ~moveBusy

\* the health long poll fails transiently: a network error, or an HTTP status that
\* is neither 2xx nor one of 404, 405, 501
TransientHealthFailure(call) ==
  /\ call.fn = "fetchHealthStatusLongPoll"
  /\ \/ call.outcome.kind = "network"
     \/ call.outcome.kind = "http" /\ call.outcome.status \notin {404, 405, 501}

\* C26: whatever cursor it is called with, fetchHealthStatusLongPoll resolves on
\* a transient failure, with a down result, the cursor it was called with and
\* timedOut = false.
C26_TransientFailureIsDownCycle ==
  (IsSome(apiOut) /\ TransientHealthFailure(Val(apiIn))) =>
    /\ Val(apiOut).thrown = None
    /\ IsSome(Val(apiOut).result) /\ Val(Val(apiOut).result).kind = "down"
    /\ Val(apiOut).cursor = Val(apiIn).sinceCursor
    /\ ~Val(apiOut).timedOut

\* called with cursor "c1", the health long poll met a network error and resolved
\* with a down result and the cursor "c1"
C26_Witness ==
  /\ IsSome(apiOut) /\ Val(apiIn).fn = "fetchHealthStatusLongPoll"
  /\ Val(apiIn).outcome.kind = "network" /\ Val(apiIn).sinceCursor = Some("c1")
  /\ Val(apiOut).result = Some(getDownResult("Failed to fetch"))
  /\ Val(apiOut).cursor = Some("c1")

\* C27: fetchHealthStatusLongPoll rejects with UnsupportedLongPollingError exactly
\* when the endpoint answers with HTTP 404, 405 or 501, whatever cursor it was
\* called with; it resolves with no cycle then.
C27_UnsupportedIsDistinguished ==
  (IsSome(apiOut) /\ Val(apiIn).fn = "fetchHealthStatusLongPoll") =>
    /\ Val(apiOut).thrown = Some("UnsupportedLongPollingError")
         <=> /\ Val(apiIn).outcome.kind = "http"
             /\ Val(apiIn).outcome.status \in {404, 405, 501}
    /\ Val(apiOut).thrown = Some("UnsupportedLongPollingError") =>
         Val(apiOut).result = None

\* called with cursor "c2", the health long poll was answered with 405 and rejected
\* with UnsupportedLongPollingError
C27_Witness ==
  /\ IsSome(apiOut) /\ Val(apiIn).fn = "fetchHealthStatusLongPoll"
  /\ Val(apiIn).outcome = [kind |-> "http", status |-> 405]
  /\ Val(apiIn).sinceCursor = Some("c2")
  /\ Val(apiOut).thrown = Some("UnsupportedLongPollingError")

\* C28: when a long-poll cycle of a live loop (game board or health) resolves
\* without a cursor, the loop keeps the cursor it had and issues its next request
\* with it.  The cursor of the game page goes from a value to null only when the
\* route changes or the page unmounts; the cursor of the health loop only when,
\* after a failure, the recovery probe finds the server up and the loop
\* subscribes afresh.
C28_OmittedCursorKeepsPrior ==
  [][ /\ (/\ last'.op = "PollDone" /\ ~last'.stale
          /\ IsSome(last'.cycle) /\ Val(last'.cycle).cursor = None) =>
           /\ gameStateCursor' = gameStateCursor
           /\ last'.reqs = << Req("long-poll", gameId, gameStateCursor) >>
      /\ (/\ last'.op = "HealthLongPollDone"
          /\ IsSome(last'.cycle) /\ Val(last'.cycle).cursor = None) =>
           /\ healthCursor' = healthCursor
           /\ isActive => last'.reqs = << Req("health-long-poll", 0, healthCursor) >>
      /\ (IsSome(gameStateCursor) /\ gameStateCursor' = None) =>
           last'.op \in {"SwitchGame", "Unmount"}
      /\ (IsSome(healthCursor) /\ healthCursor' = None) =>
           last'.op = "HealthProbeDone" ]_vars

\* the game poll loop held the cursor "c1", received a cycle without cursor and
\* polls again with "c1"
C28_Witness ==
  /\ last.op = "PollDone" /\ IsSome(last.cycle) /\ Val(last.cycle).cursor = None
  /\ gameStateCursor = Some("c1") /\ pollPc = "inflight" /\ pollSince = Some("c1")

\* C29: the step in which the route changes from one game to another issues no
\* long-poll request for the new game with a cursor: the cursor the page holds
\* then was received for the game it leaves.
C29_SwitchResetsCursorFirst ==
  [][ (mounted /\ mounted' /\ gameId' # gameId) =>
        \A r \in Range(last'.reqs) :
          (r.kind = "long-poll" /\ r.g = gameId') => r.since = None ]_vars

\* C25: once the push client of a page has reported disconnected, no later step
\* reports connected or connecting for that connection attempt, and no frame of
\* its socket is dispatched to the page: a socket message changes nothing the
\* page shows and reconciles no update.
C25_DisconnectedIsFinal ==
  [][ (mounted /\ IsSome(client) /\ wsTransportState = "disconnected") =>
        /\ wsTransportState' = "disconnected" /\ ~wsConnected'
        /\ last'.op = "SocketMessage" =>
             /\ last'.upd = None
             /\ UNCHANGED << live, details, lastSnapshotKey, moveBusy, moveError >> ]_vars

\* C30: getRealtimeStatusState returns the payload of the last call of
\* publishRealtimeStatus, idle when there was none; a call of
\* publishRealtimeStatus appends its payload to what each subscribed listener has
\* received and to nothing else, and no other step calls a listener, so a
\* listener has received, once each and in order, the payloads published while
\* it was subscribed.
C30_BusKeepsLastAndBroadcasts ==
  /\ [](unit = "bus" =>
          getRealtimeStatusState =
            IF published = <<>> THEN PubIdle ELSE published[Len(published)])
  /\ [][ unit = "bus" =>
           \A l \in Listeners :
             heard'[l] = IF Len(published') > Len(published) /\ listeners[l] = "on"
                         THEN Append(heard[l], published'[Len(published')])
                         ELSE heard[l] ]_vars

\* of two payloads published, a listener that unsubscribed in between received
\* the first only, the other listener both; the state kept is the second
C30_Witness ==
  /\ Len(published) = 2 /\ published[1] # published[2]
  /\ listeners["l1"] = "off" /\ heard["l1"] = << published[1] >>
  /\ listeners["l2"] = "on" /\ heard["l2"] = published
  /\ getRealtimeStatusState = published[2]

\* C21: the ref counter of a push client never decreases.  Every frame the
\* client sends carries a ref greater than the counter before the step and not
\* above the counter after it (so greater than the ref of every frame sent
\* before), and the topic of the client; a phx_join carries no joinRef and its
\* ref becomes the joinRef of the client; any other frame carries as joinRef the
\* ref of the join that was sent on the socket the client holds.
C21_RefsIncreaseAndJoinRefIsCurrent ==
  [][ unit = "client" =>
        /\ phx'.ref >= phx.ref
        /\ Len(last'.out) <= 1
        /\ \A f \in Range(last'.out) :
             /\ IsSome(f.ref)
             /\ RefNum(Val(f.ref)) > phx.ref /\ RefNum(Val(f.ref)) <= phx'.ref
             /\ f.topic = Topic(1)
             /\ IsSome(phx.ws) /\ phx'.ws = phx.ws
             /\ f.event = "phx_join" =>
                  /\ f.joinRef = None /\ phx'.joinRef = f.ref
                  /\ sockets[Val(phx.ws)].join = None
             /\ f.event # "phx_join" =>
                  /\ IsSome(f.joinRef)
                  /\ f.joinRef = sockets[Val(phx.ws)].join ]_vars

\* the client connected twice; on its second socket, whose join had another ref
\* than the join of the first, it sends a move with the ref of the second join as
\* joinRef
C21_Witness ==
  /\ unit = "client" /\ last.op = "ClientSendMove" /\ Len(last.out) = 1
  /\ Len(sockets) = 2 /\ phx.ws = Some(2)
  /\ IsSome(sockets[1].join) /\ IsSome(sockets[2].join)
  /\ last.out[1].joinRef = sockets[2].join
  /\ RefNum(Val(last.out[1].ref)) > RefNum(Val(sockets[2].join))

\* C22: sendMove and requestState, called on a client whose last reported status
\* is not connected (it never connected, its socket is opening, its join is not
\* answered or was refused, it is disconnected), send nothing and return false.
C22_NotJoinedSendsNothing ==
  [][ (/\ unit = "client"
       /\ last'.op \in {"ClientSendMove", "ClientRequestState"}
       /\ reported # "connected") =>
        /\ last'.out = <<>>
        /\ last'.ret = Some(FALSE) ]_vars

\* C23: a call of disconnect() leaves the client without a socket, the socket it
\* held closing or closed, its ref counter 0 and its joinRef null.
C23_DisconnectResets ==
  [][ (unit = "client" /\ last'.op = "ClientDisconnect") =>
        /\ phx'.ws = None
        /\ IsSome(phx.ws) => sockets'[Val(phx.ws)].st \in {"closing", "closed"}
        /\ phx'.ref = 0 /\ phx'.joinRef = None ]_vars

\* C24: connect() on a client that holds a socket closes that socket, and at most
\* one socket of the client is connecting or open.  An event of a socket that is
\* not the one the client holds calls no callback, publishes nothing, sends
\* nothing and leaves the joinRef alone.
C24_ReconnectSilencesEarlierSocket ==
  [][ unit = "client" =>
        /\ (last'.op = "ClientConnect" /\ IsSome(phx.ws)) =>
             sockets'[Val(phx.ws)].st \in {"closing", "closed"}
        /\ Cardinality({i \in DOMAIN sockets' : sockets'[i].st \in {"connecting", "open"}}) <= 1
        /\ (IsSome(last'.sock) /\ IsSome(phx.ws) /\ Val(last'.sock) # Val(phx.ws)) =>
             /\ last'.cb = <<>> /\ last'.pubs = <<>> /\ last'.out = <<>>
             /\ phx'.joinRef = phx.joinRef /\ reported' = reported ]_vars

\* an answer of the game-state endpoint that reports a timeout
TimedOutAnswer(o) == o.kind = "json" /\ o.timeout = Bool(TRUE)

\* C36: a cycle of the live game poll loop that the server answered with
\* timeout = true changes at most the cursor (and the request in flight): the
\* displayed game, board and players, the stored fingerprint, the error message,
\* the loading flags and everything else of the page stay as they were.
C36_TimedOutCycleChangesOnlyCursor ==
  [][ (/\ last'.op = "PollDone"
       /\ ~UNCHANGED << details, live, lastSnapshotKey, error, loading, loadingState,
                        moveError, moveBusy, firstResponsePending, wsConnected,
                        wsTransportState, client, bus, mounted, gameId >>)
        => \A o \in {x \in PollOutcomes : TimedOutAnswer(x)} : ~PollDone(o) ]_vars

\* the loop shows a game and an error message, and a timed-out cycle with the
\* cursor "c2" left both in place
C36_Witness ==
  /\ last.op = "PollDone" /\ IsSome(last.cycle) /\ Val(last.cycle).timedOut
  /\ IsSome(live) /\ IsSome(error) /\ gameStateCursor = Some("c2")

\* C37: once a subscription is torn down its loop issues no HTTP request: not
\* when the request that was in flight settles, not when the delay it was
\* sleeping in is over, not between a failed long poll and its recovery probe.
\* A step of a torn-down game or health loop issues nothing, and neither does
\* any step that leaves the page unmounted or the health subscription inactive.
C37_NoRequestAfterTeardown ==
  [][ /\ last'.stale => last'.reqs = <<>>
      /\ (unit = "game" /\ ~mounted') => last'.reqs = <<>>
      /\ (unit = "health" /\ ~isActive') => last'.reqs = <<>> ]_vars

\* the page left while its poll loop slept after a failed cycle; the delay is
\* over and nothing is requested
C37_Witness ==
  /\ last.op = "StaleWake" /\ last.stale /\ last.reqs = <<>>
  /\ \A x \in stale : x.kind # "poll"

\* C38: when the recovery probe of the health loop (the snapshot fetched after a
\* failed long poll and its wait) finds the server up, the cursor is reset to
\* null and the long-poll request the live loop sends next, in the same step,
\* carries no `since`.  When the probe finds the server down, the cursor is left
\* as it was and the next long-poll request carries it.
C38_RecoveryResubscribesWithoutCursor ==
  [][ last'.op = "HealthProbeDone" =>
        \A o \in HealthSnapshotOutcomes :
          /\ ProbeGives(o, "up") =>
               /\ healthCursor' = None
               /\ isActive => /\ last'.reqs = << Req("health-long-poll", 0, None) >>
                               /\ healthPc' = "long-poll" /\ healthSince' = None
          /\ ProbeGives(o, "down") =>
               /\ healthCursor' = healthCursor
               /\ isActive => /\ last'.reqs = << Req("health-long-poll", 0, healthCursor) >>
                               /\ healthPc' = "long-poll" /\ healthSince' = healthCursor ]_vars

\* the probe found the server up and the loop long-polls again without a cursor
C38_Witness ==
  /\ last.op = "HealthProbeDone" /\ isActive /\ IsSome(viewState)
  /\ Val(viewState).result.kind = "up"
  /\ healthCursor = None /\ healthSince = None
  /\ last.reqs = << Req("health-long-poll", 0, None) >>

\* the long-poll requests among reqs
LongPolls(reqs) == SelectSeq(reqs, LAMBDA r : r.kind = "long-poll")

\* C31: a game subscription has at most one transport operation outstanding:
\* no step leaves two long-poll requests of the page in flight, and while a
\* long-poll request of the live poll loop is in flight the socket of the page
\* is neither connecting nor open.
C31_OneTransportAtATime ==
  /\ Len(LongPolls(last.reqs)) <= 1
  /\ (mounted /\ pollPc = "inflight") =>
       ~(IsSome(client) /\ Val(client).sock \in {"connecting", "open"})

\* the turn number the page displays
DisplayedTurn(l) == Val(l).game.turnNumber

\* C33: on one game the displayed turn number never goes down: whatever update
\* a step applies (a push event, a poll cycle, the details response), the turn
\* number displayed after it is at least the one displayed before it.
C33_DisplayedTurnNeverRegresses ==
  [][ (IsSome(live) /\ IsSome(live') /\ gameId' = gameId) =>
        DisplayedTurn(live') >= DisplayedTurn(live) ]_vars

\* the page n after a state_updated frame with version v of its game
PushOn(n, v) ==
  WithPage(n, OnEvent(PageOf(n), n.gameId, "state_updated", [kind |-> "full", v |-> v]))

\* the page n after a poll cycle of the live loop that returned version v
PollOn(n, v) ==
  WithPoll(n, GamePollCycle(TRUE, PollOf(n), n.gameId,
                            [ kind |-> "json", v |-> v, cursor |-> Str("c1"),
                              timeout |-> Bool(FALSE) ]).s)

\* the page n after the details request resolved with version v
DetailsOn(n, v) ==
  LET s == DetailsCycle(TRUE, [ details |-> n.details, live |-> n.live,
                                key |-> n.lastSnapshotKey, error |-> n.error,
                                loading |-> n.loading ],
                        n.gameId, [kind |-> "json", v |-> v])
  IN  [ n EXCEPT !.details = s.details, !.live = s.live, !.lastSnapshotKey = s.key,
                 !.error = s.error, !.loading = s.loading ]

\* C32: when the socket of the page is open and a poll cycle (or the details
\* request) is pending, two distinct updates of the game, one delivered by a
\* push event and one by the poll cycle (or the details response), leave the
\* same game, board and players displayed whichever of the two arrives first.
C32_ArrivalOrderIsIrrelevant ==
  (mounted /\ IsSome(client) /\ Val(client).sock = "open") =>
    \A v \in Versions : \A w \in Versions \ {v} :
      /\ pollPc = "inflight" =>
           PollOn(PushOn(Cur, v), w).live = PushOn(PollOn(Cur, w), v).live
      /\ detailsPc = "inflight" =>
           DetailsOn(PushOn(Cur, v), w).live = PushOn(DetailsOn(Cur, w), v).live

\* C34: two snapshots that differ in a field of the game (its status and its
\* winner among them), in the board or in the players have different
\* fingerprints.
C34_KeySeparatesDisplayedFields ==
  IsSome(keyOut) =>
    LET a == Val(keyIn)[1]
        b == Val(keyIn)[2]
    IN  (a.game # b.game \/ a.state # b.state \/ ~SamePlayers(a.players, b.players))
          => Val(keyOut)[1] # Val(keyOut)[2]

\* C39: while the page is mounted the status last published on the bus agrees
\* with the transport of its subscription: `polling-fallback` only while the
\* transport state is `disconnected` and the poll loop runs (a request in
\* flight or a retry delay), `ws-connected` only while the socket is open and
\* joined and no poll loop runs.
C39_StatusAgreesWithTransport ==
  mounted =>
    /\ bus.state = "polling-fallback" =>
         (wsTransportState = "disconnected" /\ pollPc \in {"inflight", "sleeping"})
    /\ bus.state = "ws-connected" =>
         /\ IsSome(client) /\ Val(client).sock = "open"
         /\ wsConnected /\ wsTransportState = "connected"
         /\ pollPc = "none"

\* a move was sent over the push channel, no event has cleared the busy flag
\* and the socket is closed
BusyAfterLostSocket ==
  mounted /\ moveBusy /\ IsSome(client) /\ Val(client).sock = "closed"

\* C40: the busy flag set by a move sent over the push channel becomes false
\* again.  The case of the claim: the socket closes before any state_snapshot,
\* state_updated or move_applied event arrives and the subscription falls back
\* to polling, whose cycles are answered with snapshots.
C40_BusyClearsAfterLostSocket == BusyAfterLostSocket ~> ~moveBusy

\* C35: whenever the mounted page displays a game, board and players received
\* for the game of its route, the stored fingerprint is buildStateSnapshotKey
\* of exactly that displayed triple.
C35_StoredKeyIsKeyOfDisplay ==
  (mounted /\ IsSome(live) /\ Val(live).game.id = gameId) =>
    lastSnapshotKey = Some(KeyOf(Val(live)))

====
